---- MODULE Spec2Model ----
(***************************************************************************)
(* Model of the OLMS tooling scripts:                                      *)
(*   scripts/generate_program_listing.py  (the catalog generator)          *)
(*   tmp_replace.py                       (the bulk find/replace utility)  *)
(*                                                                         *)
(* A Python str is a sequence of one-character strings, so that lower(),   *)
(* startswith(), "in", rstrip(), splitlines(), re.sub() and sorted() are   *)
(* computed character by character as the interpreter computes them.  A    *)
(* path is its as_posix() relative path, again a sequence of characters.   *)
(***************************************************************************)
EXTENDS Naturals, Sequences, FiniteSets, TLC

\* ------------------------------------------------------------------ bounds
\* Largest number of files in the scanned tree (listing generator).
MaxFiles == 3
\* Largest number of files in the tree handed to the find/replace utility.
MaxReplaceFiles == 2
\* Longest text over the general alphabet given to clean_code.
MaxTextLen == 4
\* Longest text over the alphabet {/, *} given to clean_code.
MaxSlashStarLen == 8

\* ----------------------------------------------------------- str primitives
UpperLetters == <<"A","B","C","D","E","F","G","H","I","J","K","L","M","N","O","P","Q","R","S","T","U","V","W","X","Y","Z">>
LowerLetters == <<"a","b","c","d","e","f","g","h","i","j","k","l","m","n","o","p","q","r","s","t","u","v","w","x","y","z">>

\* The printable ASCII characters in code-point order: 32 (space) to 95 (_),
\* and 97 (a) to 126 (~).
AsciiFrom32 ==
    <<" ","!","\"","#","$","%","&","'","(",")","*","+",",","-",".","/","0","1","2","3","4","5","6","7","8","9",":",";","<","=",">","?","@","A","B","C","D","E","F","G","H","I","J","K","L","M","N","O","P","Q","R","S","T","U","V","W","X","Y","Z","[","\\","]","^","_">>
AsciiFrom97 == <<"a","b","c","d","e","f","g","h","i","j","k","l","m","n","o","p","q","r","s","t","u","v","w","x","y","z","{","|","}","~">>

\* ord(c): the code point, which is what str comparison compares.
Ord(c) ==
    CASE c = "\t" -> 9
      [] c = "\n" -> 10
      [] c = "\f" -> 12
      [] c = "\r" -> 13
      [] \E i \in DOMAIN AsciiFrom32 : AsciiFrom32[i] = c ->
            31 + (CHOOSE i \in DOMAIN AsciiFrom32 : AsciiFrom32[i] = c)
      [] OTHER -> 96 + (CHOOSE i \in DOMAIN AsciiFrom97 : AsciiFrom97[i] = c)

\* str.lower() on one character.
CharLower(c) ==
    IF \E i \in DOMAIN UpperLetters : UpperLetters[i] = c
    THEN LowerLetters[CHOOSE i \in DOMAIN UpperLetters : UpperLetters[i] = c]
    ELSE c

\* str.lower()
Lower(s) == [i \in 1..Len(s) |-> CharLower(s[i])]

\* The characters str.isspace() / regex \s accept (among those modelled).
Whitespace == {" ", "\t", "\n", "\r", "\f"}

\* The line boundaries str.splitlines() splits on (among those modelled);
\* "\r\n" is one boundary.
LineBreaks == {"\n", "\r", "\f"}

\* s[i:i+len(lit)] == lit, with i counted from 1.
MatchAt(s, i, lit) ==
    /\ i >= 1
    /\ i + Len(lit) - 1 <= Len(s)
    /\ SubSeq(s, i, i + Len(lit) - 1) = lit

\* s.startswith(p)
StartsWith(s, p) == MatchAt(s, 1, p)

\* s.startswith((p1, p2, ...)) for a tuple of prefixes
StartsWithAny(s, prefixes) == \E p \in prefixes : StartsWith(s, p)

\* s.endswith(p)
EndsWith(s, p) == Len(p) <= Len(s) /\ MatchAt(s, Len(s) - Len(p) + 1, p)

\* sub in s
Contains(s, sub) == \E i \in 1..(Len(s) + 1) : MatchAt(s, i, sub)

\* a < b for two str: the first differing character decides, else the length.
StrLess(a, b) ==
    LET n == IF Len(a) < Len(b) THEN Len(a) ELSE Len(b)
        d == {i \in 1..n : a[i] # b[i]}
    IN  IF d = {}
        THEN Len(a) < Len(b)
        ELSE LET k == CHOOSE i \in d : \A j \in d : i <= j
             IN  Ord(a[k]) < Ord(b[k])

\* sorted(s, key=...) / list.sort(key=...), keys[i] being the key of s[i]:
\* Python's sort is stable, so an element goes after every element with a
\* smaller key and after the earlier elements with an equal key.
StableSortByKeys(s, keys) ==
    LET n == Len(s)
        pos(i) == 1 + Cardinality({j \in 1..n : StrLess(keys[j], keys[i])})
                    + Cardinality({j \in 1..(i - 1) : keys[j] = keys[i]})
    IN  [p \in 1..n |-> s[CHOOSE i \in 1..n : pos(i) = p]]

\* The elements of a sequence.
Range(s) == {s[i] : i \in DOMAIN s}

\* sep.join(parts)
RECURSIVE Join(_, _)
Join(parts, sep) ==
    IF Len(parts) = 0 THEN <<>>
    ELSE IF Len(parts) = 1 THEN parts[1]
    ELSE parts[1] \o sep \o Join(Tail(parts), sep)

\* s.split(sep) for a one-character separator
RECURSIVE SplitOn(_, _)
SplitOn(s, sep) ==
    IF \A i \in DOMAIN s : s[i] # sep
    THEN <<s>>
    ELSE LET i == CHOOSE k \in DOMAIN s : s[k] = sep /\ \A j \in 1..(k - 1) : s[j] # sep
         IN  <<SubSeq(s, 1, i - 1)>> \o SplitOn(SubSeq(s, i + 1, Len(s)), sep)

\* str.replace(old, new): leftmost non-overlapping occurrences, left to right.
RECURSIVE Replace(_, _, _)
Replace(s, old, new) ==
    IF Len(s) = 0 THEN <<>>
    ELSE IF MatchAt(s, 1, old)
         THEN new \o Replace(SubSeq(s, Len(old) + 1, Len(s)), old, new)
         ELSE <<s[1]>> \o Replace(Tail(s), old, new)

\* ------------------------------------------------------------ pathlib parts
\* PurePath.parts of a relative path: its components.
PathParts(rel) == SelectSeq(SplitOn(rel, "/"), LAMBDA part : part # <<>>)

\* PurePath.name: the final component.
PathName(rel) == LET parts == PathParts(rel) IN parts[Len(parts)]

\* Index of the dot that starts the suffix of a name, or 0: the last dot,
\* unless it is the first or the last character of the name.
SuffixDot(name) ==
    LET dots == {i \in DOMAIN name : name[i] = "."}
    IN  IF dots = {} THEN 0
        ELSE LET k == CHOOSE i \in dots : \A j \in dots : j <= i
             IN  IF 1 < k /\ k < Len(name) THEN k ELSE 0

\* PurePath.suffix
PathSuffix(rel) ==
    LET name == PathName(rel)
        k == SuffixDot(name)
    IN  IF k = 0 THEN <<>> ELSE SubSeq(name, k, Len(name))

\* PurePath.stem
PathStem(rel) ==
    LET name == PathName(rel)
        k == SuffixDot(name)
    IN  IF k = 0 THEN name ELSE SubSeq(name, 1, k - 1)

\* ------------------------------------------------------------ File Selector
skip_dirs ==
    {<<".","g","i","t">>, <<"n","o","d","e","_","m","o","d","u","l","e","s">>, <<".","n","e","x","t">>, <<".","t","u","r","b","o">>, <<".","i","d","e","a">>, <<".","v","s","c","o","d","e">>,
     <<"_","_","p","y","c","a","c","h","e","_","_">>, <<".","p","y","t","e","s","t","_","c","a","c","h","e">>, <<".","v","e","n","v">>}

skip_files == {<<".","D","S","_","S","t","o","r","e">>, <<"T","h","u","m","b","s",".","d","b">>}

binary_exts ==
    {<<".","p","n","g">>, <<".","j","p","g">>, <<".","j","p","e","g">>, <<".","g","i","f">>, <<".","b","m","p">>, <<".","i","c","o">>, <<".","s","v","g">>,
     <<".","m","p","4">>, <<".","m","o","v">>, <<".","a","v","i">>, <<".","m","p","3">>, <<".","w","a","v">>,
     <<".","p","d","f">>, <<".","z","i","p">>, <<".","7","z">>, <<".","r","a","r">>,
     <<".","m","a","p">>, <<".","l","o","c","k">>, <<".","w","o","f","f">>, <<".","w","o","f","f","2">>, <<".","t","t","f">>, <<".","e","o","t">>}

exclude_prefixes ==
    {<<"f","r","o","n","t","e","n","d","/","b","u","i","l","d","/">>, <<"f","r","o","n","t","e","n","d","/","p","u","b","l","i","c","/">>, <<"b","a","c","k","e","n","d","/","d","a","t","a","/">>, <<"b","a","c","k","e","n","d","/","t","e","s","t","/">>,
     <<"b","a","c","k","e","n","d","/","u","p","l","o","a","d","s","/">>, <<"d","o","c","s","/">>, <<"s","c","r","i","p","t","s","/">>}

exclude_names ==
    {<<"p","a","c","k","a","g","e","-","l","o","c","k",".","j","s","o","n">>, <<"y","a","r","n",".","l","o","c","k">>, <<"p","n","p","m","-","l","o","c","k",".","y","a","m","l">>, <<".","e","n","v">>, <<".","e","n","v",".","e","x","a","m","p","l","e">>,
     <<".","e","n","v",".","d","e","v","e","l","o","p","m","e","n","t">>, <<".","g","i","t","i","g","n","o","r","e">>, <<"r","e","a","d","m","e",".","m","d">>, <<"f","i","l","e","_","s","t","a","t","u","s","_","r","e","p","o","r","t",".","t","x","t">>}

backup_exts == {<<".","l","o","g">>, <<".","b","a","k">>}

\* should_skip(path): some component of the relative path, the file's own
\* name included, is an ignored directory name.
should_skip(rel) ==
    LET parts == PathParts(rel)
    IN  \E i \in DOMAIN parts : parts[i] \in skip_dirs

\* is_program_file with the lower() of the suffix test forgotten.
is_program_file_case_sensitive(rel) ==
    LET lower == Lower(rel)
        name == PathName(rel)
    IN  IF name \in skip_files THEN FALSE
        ELSE IF PathSuffix(rel) \in binary_exts THEN FALSE
        ELSE IF StartsWithAny(lower, exclude_prefixes) THEN FALSE
        ELSE IF Lower(name) \in exclude_names THEN FALSE
        ELSE IF PathSuffix(rel) \in backup_exts THEN FALSE
        ELSE IF Contains(Lower(name), <<".","b","a","k",".">>) THEN FALSE
        ELSE TRUE

\* is_program_file(path): the rules are tried in the source's order; each
\* one that matches rejects the file.
is_program_file(rel) ==
    LET lower == Lower(rel)
        name == PathName(rel)
    IN  IF name \in skip_files THEN FALSE
        ELSE IF Lower(PathSuffix(rel)) \in binary_exts THEN FALSE
        ELSE IF StartsWithAny(lower, exclude_prefixes) THEN FALSE
        ELSE IF Lower(name) \in exclude_names THEN FALSE
        ELSE IF Lower(PathSuffix(rel)) \in backup_exts THEN FALSE
        ELSE IF Contains(Lower(name), <<".","b","a","k",".">>) THEN FALSE
        ELSE TRUE

\* --------------------------------------------------------------- Classifier
\* describe_program with the file-name rules tried before the path rules.
describe_program_suffix_first(rel) ==
    LET lower == Lower(rel)
        name == PathName(rel)
    IN  IF EndsWith(name, <<".","m","d">>) THEN <<"P","r","o","j","e","c","t"," ","d","o","c","u","m","e","n","t","a","t","i","o","n"," ","f","i","l","e",".">>
        ELSE IF EndsWith(name, <<".","j","s","o","n">>) THEN <<"P","r","o","j","e","c","t"," ","c","o","n","f","i","g","u","r","a","t","i","o","n"," ","o","r"," ","d","a","t","a"," ","f","i","l","e",".">>
        ELSE IF EndsWith(name, <<".","y","m","l">>) \/ EndsWith(name, <<".","y","a","m","l">>)
             THEN <<"D","e","p","l","o","y","m","e","n","t"," ","o","r"," ","c","o","n","f","i","g","u","r","a","t","i","o","n"," ","f","i","l","e",".">>
        ELSE IF EndsWith(name, <<".","b","a","t">>) \/ EndsWith(name, <<".","p","s","1">>)
             THEN <<"A","u","t","o","m","a","t","i","o","n"," ","o","r"," ","s","t","a","r","t","u","p"," ","s","c","r","i","p","t",".">>
        ELSE IF StartsWith(lower, <<"b","a","c","k","e","n","d","/","r","o","u","t","e","s","/">>)
             THEN <<"A","P","I"," ","r","o","u","t","e"," ","h","a","n","d","l","e","r"," ","f","o","r"," ">> \o Replace(PathStem(rel), <<"_">>, <<" ">>) \o <<" ","r","e","s","o","u","r","c","e","s",".">>
        ELSE IF StartsWith(lower, <<"b","a","c","k","e","n","d","/","m","i","d","d","l","e","w","a","r","e","/">>)
             THEN <<"E","x","p","r","e","s","s"," ","m","i","d","d","l","e","w","a","r","e"," ","f","o","r"," ","r","e","q","u","e","s","t"," ","h","a","n","d","l","i","n","g"," ","a","n","d"," ","a","c","c","e","s","s"," ","c","o","n","t","r","o","l",".">>
        ELSE IF StartsWith(lower, <<"b","a","c","k","e","n","d","/","u","t","i","l","s","/">>)
             THEN <<"B","a","c","k","e","n","d"," ","u","t","i","l","i","t","y"," ","m","o","d","u","l","e"," ","u","s","e","d"," ","a","c","r","o","s","s"," ","s","e","r","v","i","c","e","s",".">>
        ELSE IF StartsWith(lower, <<"b","a","c","k","e","n","d","/","a","d","a","p","t","e","r","s","/">>)
             THEN <<"D","a","t","a","b","a","s","e"," ","a","d","a","p","t","e","r"," ","l","a","y","e","r"," ","f","o","r"," ","s","t","o","r","a","g","e"," ","o","p","e","r","a","t","i","o","n","s",".">>
        ELSE IF StartsWith(lower, <<"b","a","c","k","e","n","d","/","s","c","r","i","p","t","s","/">>)
             THEN <<"B","a","c","k","e","n","d"," ","m","a","i","n","t","e","n","a","n","c","e"," ","o","r"," ","d","a","t","a"," ","m","i","g","r","a","t","i","o","n"," ","s","c","r","i","p","t",".">>
        ELSE IF StartsWith(lower, <<"b","a","c","k","e","n","d","/","t","e","s","t","/">>) THEN <<"B","a","c","k","e","n","d"," ","a","u","t","o","m","a","t","e","d"," ","t","e","s","t"," ","c","a","s","e",".">>
        ELSE IF StartsWith(lower, <<"b","a","c","k","e","n","d","/","d","a","t","a","/">>)
             THEN <<"S","e","e","d"," ","o","r"," ","o","f","f","l","i","n","e"," ","d","a","t","a"," ","s","t","o","r","e"," ","f","o","r"," ","t","h","e"," ","b","a","c","k","e","n","d",".">>
        ELSE IF lower = <<"b","a","c","k","e","n","d","/","a","p","p",".","j","s">>
             THEN <<"E","x","p","r","e","s","s"," ","a","p","p","l","i","c","a","t","i","o","n"," ","c","o","n","f","i","g","u","r","a","t","i","o","n"," ","a","n","d"," ","m","i","d","d","l","e","w","a","r","e"," ","s","e","t","u","p",".">>
        ELSE IF lower = <<"b","a","c","k","e","n","d","/","s","e","r","v","e","r",".","j","s">>
             THEN <<"B","a","c","k","e","n","d"," ","s","e","r","v","e","r"," ","e","n","t","r","y"," ","p","o","i","n","t"," ","a","n","d"," ","H","T","T","P"," ","l","i","s","t","e","n","e","r",".">>
        ELSE IF StartsWith(lower, <<"f","r","o","n","t","e","n","d","/","s","r","c","/","p","a","g","e","s","/">>)
             THEN <<"F","r","o","n","t","e","n","d"," ","p","a","g","e"," ","v","i","e","w"," ","f","o","r"," ","r","o","u","t","i","n","g"," ","a","n","d"," ","p","a","g","e","-","l","e","v","e","l"," ","U","I",".">>
        ELSE IF StartsWith(lower, <<"f","r","o","n","t","e","n","d","/","s","r","c","/","c","o","m","p","o","n","e","n","t","s","/">>)
             THEN <<"R","e","u","s","a","b","l","e"," ","f","r","o","n","t","e","n","d"," ","U","I"," ","c","o","m","p","o","n","e","n","t",".">>
        ELSE IF StartsWith(lower, <<"f","r","o","n","t","e","n","d","/","s","r","c","/","c","o","n","t","e","x","t","s","/">>)
             THEN <<"R","e","a","c","t"," ","c","o","n","t","e","x","t"," ","p","r","o","v","i","d","e","r"," ","f","o","r"," ","s","h","a","r","e","d"," ","s","t","a","t","e",".">>
        ELSE IF StartsWith(lower, <<"f","r","o","n","t","e","n","d","/","s","r","c","/","u","t","i","l","s","/">>)
             THEN <<"F","r","o","n","t","e","n","d"," ","u","t","i","l","i","t","y"," ","h","e","l","p","e","r"," ","f","o","r"," ","s","h","a","r","e","d"," ","l","o","g","i","c",".">>
        ELSE IF StartsWith(lower, <<"f","r","o","n","t","e","n","d","/","s","r","c","/","t","h","e","m","e","/">>)
             THEN <<"F","r","o","n","t","e","n","d"," ","t","h","e","m","i","n","g"," ","a","n","d"," ","U","I"," ","c","o","n","f","i","g","u","r","a","t","i","o","n",".">>
        ELSE IF StartsWith(lower, <<"f","r","o","n","t","e","n","d","/","s","r","c","/","d","a","t","a","/">>)
             THEN <<"F","r","o","n","t","e","n","d"," ","s","t","a","t","i","c"," ","d","a","t","a"," ","c","o","n","f","i","g","u","r","a","t","i","o","n",".">>
        ELSE IF lower = <<"f","r","o","n","t","e","n","d","/","s","r","c","/","i","n","d","e","x",".","j","s">>
             THEN <<"F","r","o","n","t","e","n","d"," ","a","p","p","l","i","c","a","t","i","o","n"," ","b","o","o","t","s","t","r","a","p"," ","a","n","d"," ","r","e","n","d","e","r"," ","e","n","t","r","y",".">>
        ELSE IF lower = <<"f","r","o","n","t","e","n","d","/","s","r","c","/","a","p","p",".","j","s">> THEN <<"F","r","o","n","t","e","n","d"," ","a","p","p","l","i","c","a","t","i","o","n"," ","r","o","o","t"," ","c","o","m","p","o","n","e","n","t",".">>
        ELSE IF StartsWith(lower, <<"f","r","o","n","t","e","n","d","/","p","u","b","l","i","c","/">>)
             THEN <<"F","r","o","n","t","e","n","d"," ","p","u","b","l","i","c"," ","s","t","a","t","i","c"," ","a","s","s","e","t"," ","o","r"," ","H","T","M","L"," ","e","n","t","r","y",".">>
        ELSE IF StartsWith(lower, <<"f","r","o","n","t","e","n","d","/","b","u","i","l","d","/">>) THEN <<"C","o","m","p","i","l","e","d"," ","f","r","o","n","t","e","n","d"," ","b","u","i","l","d"," ","a","r","t","i","f","a","c","t",".">>
        ELSE <<"S","o","u","r","c","e"," ","f","i","l","e"," ","l","o","c","a","t","e","d"," ","a","t"," ">> \o rel \o <<".">>

\* describe_program(path): the first rule that matches gives the description.
describe_program(rel) ==
    LET lower == Lower(rel)
        name == PathName(rel)
    IN  IF StartsWith(lower, <<"b","a","c","k","e","n","d","/","r","o","u","t","e","s","/">>)
        THEN <<"A","P","I"," ","r","o","u","t","e"," ","h","a","n","d","l","e","r"," ","f","o","r"," ">> \o Replace(PathStem(rel), <<"_">>, <<" ">>) \o <<" ","r","e","s","o","u","r","c","e","s",".">>
        ELSE IF StartsWith(lower, <<"b","a","c","k","e","n","d","/","m","i","d","d","l","e","w","a","r","e","/">>)
             THEN <<"E","x","p","r","e","s","s"," ","m","i","d","d","l","e","w","a","r","e"," ","f","o","r"," ","r","e","q","u","e","s","t"," ","h","a","n","d","l","i","n","g"," ","a","n","d"," ","a","c","c","e","s","s"," ","c","o","n","t","r","o","l",".">>
        ELSE IF StartsWith(lower, <<"b","a","c","k","e","n","d","/","u","t","i","l","s","/">>)
             THEN <<"B","a","c","k","e","n","d"," ","u","t","i","l","i","t","y"," ","m","o","d","u","l","e"," ","u","s","e","d"," ","a","c","r","o","s","s"," ","s","e","r","v","i","c","e","s",".">>
        ELSE IF StartsWith(lower, <<"b","a","c","k","e","n","d","/","a","d","a","p","t","e","r","s","/">>)
             THEN <<"D","a","t","a","b","a","s","e"," ","a","d","a","p","t","e","r"," ","l","a","y","e","r"," ","f","o","r"," ","s","t","o","r","a","g","e"," ","o","p","e","r","a","t","i","o","n","s",".">>
        ELSE IF StartsWith(lower, <<"b","a","c","k","e","n","d","/","s","c","r","i","p","t","s","/">>)
             THEN <<"B","a","c","k","e","n","d"," ","m","a","i","n","t","e","n","a","n","c","e"," ","o","r"," ","d","a","t","a"," ","m","i","g","r","a","t","i","o","n"," ","s","c","r","i","p","t",".">>
        ELSE IF StartsWith(lower, <<"b","a","c","k","e","n","d","/","t","e","s","t","/">>) THEN <<"B","a","c","k","e","n","d"," ","a","u","t","o","m","a","t","e","d"," ","t","e","s","t"," ","c","a","s","e",".">>
        ELSE IF StartsWith(lower, <<"b","a","c","k","e","n","d","/","d","a","t","a","/">>)
             THEN <<"S","e","e","d"," ","o","r"," ","o","f","f","l","i","n","e"," ","d","a","t","a"," ","s","t","o","r","e"," ","f","o","r"," ","t","h","e"," ","b","a","c","k","e","n","d",".">>
        ELSE IF lower = <<"b","a","c","k","e","n","d","/","a","p","p",".","j","s">>
             THEN <<"E","x","p","r","e","s","s"," ","a","p","p","l","i","c","a","t","i","o","n"," ","c","o","n","f","i","g","u","r","a","t","i","o","n"," ","a","n","d"," ","m","i","d","d","l","e","w","a","r","e"," ","s","e","t","u","p",".">>
        ELSE IF lower = <<"b","a","c","k","e","n","d","/","s","e","r","v","e","r",".","j","s">>
             THEN <<"B","a","c","k","e","n","d"," ","s","e","r","v","e","r"," ","e","n","t","r","y"," ","p","o","i","n","t"," ","a","n","d"," ","H","T","T","P"," ","l","i","s","t","e","n","e","r",".">>
        ELSE IF StartsWith(lower, <<"f","r","o","n","t","e","n","d","/","s","r","c","/","p","a","g","e","s","/">>)
             THEN <<"F","r","o","n","t","e","n","d"," ","p","a","g","e"," ","v","i","e","w"," ","f","o","r"," ","r","o","u","t","i","n","g"," ","a","n","d"," ","p","a","g","e","-","l","e","v","e","l"," ","U","I",".">>
        ELSE IF StartsWith(lower, <<"f","r","o","n","t","e","n","d","/","s","r","c","/","c","o","m","p","o","n","e","n","t","s","/">>)
             THEN <<"R","e","u","s","a","b","l","e"," ","f","r","o","n","t","e","n","d"," ","U","I"," ","c","o","m","p","o","n","e","n","t",".">>
        ELSE IF StartsWith(lower, <<"f","r","o","n","t","e","n","d","/","s","r","c","/","c","o","n","t","e","x","t","s","/">>)
             THEN <<"R","e","a","c","t"," ","c","o","n","t","e","x","t"," ","p","r","o","v","i","d","e","r"," ","f","o","r"," ","s","h","a","r","e","d"," ","s","t","a","t","e",".">>
        ELSE IF StartsWith(lower, <<"f","r","o","n","t","e","n","d","/","s","r","c","/","u","t","i","l","s","/">>)
             THEN <<"F","r","o","n","t","e","n","d"," ","u","t","i","l","i","t","y"," ","h","e","l","p","e","r"," ","f","o","r"," ","s","h","a","r","e","d"," ","l","o","g","i","c",".">>
        ELSE IF StartsWith(lower, <<"f","r","o","n","t","e","n","d","/","s","r","c","/","t","h","e","m","e","/">>)
             THEN <<"F","r","o","n","t","e","n","d"," ","t","h","e","m","i","n","g"," ","a","n","d"," ","U","I"," ","c","o","n","f","i","g","u","r","a","t","i","o","n",".">>
        ELSE IF StartsWith(lower, <<"f","r","o","n","t","e","n","d","/","s","r","c","/","d","a","t","a","/">>)
             THEN <<"F","r","o","n","t","e","n","d"," ","s","t","a","t","i","c"," ","d","a","t","a"," ","c","o","n","f","i","g","u","r","a","t","i","o","n",".">>
        ELSE IF lower = <<"f","r","o","n","t","e","n","d","/","s","r","c","/","i","n","d","e","x",".","j","s">>
             THEN <<"F","r","o","n","t","e","n","d"," ","a","p","p","l","i","c","a","t","i","o","n"," ","b","o","o","t","s","t","r","a","p"," ","a","n","d"," ","r","e","n","d","e","r"," ","e","n","t","r","y",".">>
        ELSE IF lower = <<"f","r","o","n","t","e","n","d","/","s","r","c","/","a","p","p",".","j","s">> THEN <<"F","r","o","n","t","e","n","d"," ","a","p","p","l","i","c","a","t","i","o","n"," ","r","o","o","t"," ","c","o","m","p","o","n","e","n","t",".">>
        ELSE IF StartsWith(lower, <<"f","r","o","n","t","e","n","d","/","p","u","b","l","i","c","/">>)
             THEN <<"F","r","o","n","t","e","n","d"," ","p","u","b","l","i","c"," ","s","t","a","t","i","c"," ","a","s","s","e","t"," ","o","r"," ","H","T","M","L"," ","e","n","t","r","y",".">>
        ELSE IF StartsWith(lower, <<"f","r","o","n","t","e","n","d","/","b","u","i","l","d","/">>) THEN <<"C","o","m","p","i","l","e","d"," ","f","r","o","n","t","e","n","d"," ","b","u","i","l","d"," ","a","r","t","i","f","a","c","t",".">>
        ELSE IF EndsWith(name, <<".","m","d">>) THEN <<"P","r","o","j","e","c","t"," ","d","o","c","u","m","e","n","t","a","t","i","o","n"," ","f","i","l","e",".">>
        ELSE IF EndsWith(name, <<".","j","s","o","n">>) THEN <<"P","r","o","j","e","c","t"," ","c","o","n","f","i","g","u","r","a","t","i","o","n"," ","o","r"," ","d","a","t","a"," ","f","i","l","e",".">>
        ELSE IF EndsWith(name, <<".","y","m","l">>) \/ EndsWith(name, <<".","y","a","m","l">>)
             THEN <<"D","e","p","l","o","y","m","e","n","t"," ","o","r"," ","c","o","n","f","i","g","u","r","a","t","i","o","n"," ","f","i","l","e",".">>
        ELSE IF EndsWith(name, <<".","b","a","t">>) \/ EndsWith(name, <<".","p","s","1">>)
             THEN <<"A","u","t","o","m","a","t","i","o","n"," ","o","r"," ","s","t","a","r","t","u","p"," ","s","c","r","i","p","t",".">>
        ELSE <<"S","o","u","r","c","e"," ","f","i","l","e"," ","l","o","c","a","t","e","d"," ","a","t"," ">> \o rel \o <<".">>

\* module_name(path): the module label, again first match wins.
module_name(rel) ==
    LET lower == Lower(rel)
    IN  IF StartsWith(lower, <<"b","a","c","k","e","n","d","/","a","d","a","p","t","e","r","s","/">>) THEN <<"B","a","c","k","e","n","d"," ","-"," ","A","d","a","p","t","e","r","s">>
        ELSE IF StartsWith(lower, <<"b","a","c","k","e","n","d","/","m","i","d","d","l","e","w","a","r","e","/">>) THEN <<"B","a","c","k","e","n","d"," ","-"," ","M","i","d","d","l","e","w","a","r","e">>
        ELSE IF StartsWith(lower, <<"b","a","c","k","e","n","d","/","r","o","u","t","e","s","/">>) THEN <<"B","a","c","k","e","n","d"," ","-"," ","R","o","u","t","e","s">>
        ELSE IF StartsWith(lower, <<"b","a","c","k","e","n","d","/","u","t","i","l","s","/">>) THEN <<"B","a","c","k","e","n","d"," ","-"," ","U","t","i","l","s">>
        ELSE IF StartsWith(lower, <<"b","a","c","k","e","n","d","/","s","c","r","i","p","t","s","/">>) THEN <<"B","a","c","k","e","n","d"," ","-"," ","S","c","r","i","p","t","s">>
        ELSE IF StartsWith(lower, <<"b","a","c","k","e","n","d","/">>) THEN <<"B","a","c","k","e","n","d"," ","-"," ","C","o","r","e">>
        ELSE IF StartsWith(lower, <<"f","r","o","n","t","e","n","d","/","s","r","c","/","p","a","g","e","s","/">>) THEN <<"F","r","o","n","t","e","n","d"," ","-"," ","P","a","g","e","s">>
        ELSE IF StartsWith(lower, <<"f","r","o","n","t","e","n","d","/","s","r","c","/","c","o","m","p","o","n","e","n","t","s","/">>) THEN <<"F","r","o","n","t","e","n","d"," ","-"," ","C","o","m","p","o","n","e","n","t","s">>
        ELSE IF StartsWith(lower, <<"f","r","o","n","t","e","n","d","/","s","r","c","/","c","o","n","t","e","x","t","s","/">>) THEN <<"F","r","o","n","t","e","n","d"," ","-"," ","C","o","n","t","e","x","t","s">>
        ELSE IF StartsWith(lower, <<"f","r","o","n","t","e","n","d","/","s","r","c","/","u","t","i","l","s","/">>) THEN <<"F","r","o","n","t","e","n","d"," ","-"," ","U","t","i","l","s">>
        ELSE IF StartsWith(lower, <<"f","r","o","n","t","e","n","d","/","s","r","c","/","t","h","e","m","e","/">>) THEN <<"F","r","o","n","t","e","n","d"," ","-"," ","T","h","e","m","e">>
        ELSE IF StartsWith(lower, <<"f","r","o","n","t","e","n","d","/","s","r","c","/","d","a","t","a","/">>) THEN <<"F","r","o","n","t","e","n","d"," ","-"," ","D","a","t","a">>
        ELSE IF StartsWith(lower, <<"f","r","o","n","t","e","n","d","/","s","r","c","/">>) THEN <<"F","r","o","n","t","e","n","d"," ","-"," ","C","o","r","e">>
        ELSE IF StartsWith(lower, <<"f","r","o","n","t","e","n","d","/">>) THEN <<"F","r","o","n","t","e","n","d"," ","-"," ","O","t","h","e","r">>
        ELSE <<"O","t","h","e","r">>

\* code_fence_language(path): the fence tag of the suffix, "" when unknown.
code_fence_language(rel) ==
    LET ext == Lower(PathSuffix(rel))
    IN  CASE ext \in {<<".","j","s">>, <<".","j","s","x">>} -> <<"j","a","v","a","s","c","r","i","p","t">>
          [] ext \in {<<".","t","s">>, <<".","t","s","x">>} -> <<"t","y","p","e","s","c","r","i","p","t">>
          [] ext = <<".","j","s","o","n">> -> <<"j","s","o","n">>
          [] ext \in {<<".","y","m","l">>, <<".","y","a","m","l">>} -> <<"y","a","m","l">>
          [] ext = <<".","c","s","s">> -> <<"c","s","s">>
          [] ext = <<".","s","c","s","s">> -> <<"s","c","s","s">>
          [] ext = <<".","h","t","m","l">> -> <<"h","t","m","l">>
          [] ext = <<".","b","a","t">> -> <<"b","a","t">>
          [] ext = <<".","p","s","1">> -> <<"p","o","w","e","r","s","h","e","l","l">>
          [] ext = <<".","p","y">> -> <<"p","y","t","h","o","n">>
          [] OTHER -> <<>>

\* ---------------------------------------------------------- Code Normalizer
\* Number of consecutive whitespace characters of s from index from on: what
\* a greedy \s* consumes there.
WsRun(s, from) ==
    LET stops == {i \in from..Len(s) : s[i] \notin Whitespace}
    IN  IF stops = {} THEN (IF from > Len(s) THEN 0 ELSE Len(s) - from + 1)
        ELSE (CHOOSE i \in stops : \A j \in stops : i <= j) - from

\* Index of the last character a greedy .* consumes from index from on: it
\* stops before the next "\n" (the only character . refuses), where $ matches.
LineEnd(s, from) ==
    LET nls == {i \in from..Len(s) : s[i] = "\n"}
    IN  IF nls = {} THEN Len(s)
        ELSE (CHOOSE i \in nls : \A j \in nls : i <= j) - 1

\* re.sub(r"/\*.*?\*/", "", s, flags=re.DOTALL): from the left, each "/*"
\* that has a "*/" after it is removed up to the nearest such "*/".
RECURSIVE RemoveBlockComments(_)
RemoveBlockComments(s) ==
    LET closes == {j \in 3..(Len(s) - 1) : MatchAt(s, j, <<"*","/">>)}
    IN  IF Len(s) = 0 THEN <<>>
        ELSE IF MatchAt(s, 1, <<"/","*">>) /\ closes # {}
             THEN LET j == CHOOSE k \in closes : \A m \in closes : k <= m
                  IN  RemoveBlockComments(SubSeq(s, j + 2, Len(s)))
             ELSE <<s[1]>> \o RemoveBlockComments(Tail(s))

\* Where a full-line comment that starts at the beginning of s ends (index of
\* its last character), or 0 when the pattern does not match there.
\*   "//"  : ^\s*//.*$          "#" : ^\s*#.*$
\*   "bat" : ^\s*(rem\s+.*|::.*)$   with re.IGNORECASE
\* \s* and \s+ also run over line breaks, which are whitespace.
CommentEnd(s, kind) ==
    LET p == 1 + WsRun(s, 1)
    IN  CASE kind = "//" -> IF MatchAt(s, p, <<"/","/">>) THEN LineEnd(s, p + 2) ELSE 0
          [] kind = "#" -> IF MatchAt(s, p, <<"#">>) THEN LineEnd(s, p + 1) ELSE 0
          [] kind = "bat" ->
                IF MatchAt(Lower(s), p, <<"r","e","m">>) /\ WsRun(s, p + 3) >= 1
                THEN LineEnd(s, p + 3 + WsRun(s, p + 3))
                ELSE IF MatchAt(s, p, <<":",":">>) THEN LineEnd(s, p + 2)
                ELSE 0

\* re.sub(pattern, "", s, flags=re.MULTILINE) for the three full-line comment
\* patterns: ^ matches at the start of the text and after each "\n".
RECURSIVE RemoveLineComments(_, _, _)
RemoveLineComments(s, kind, atLineStart) ==
    IF Len(s) = 0 THEN <<>>
    ELSE IF atLineStart /\ CommentEnd(s, kind) > 0
         THEN RemoveLineComments(SubSeq(s, CommentEnd(s, kind) + 1, Len(s)), kind, FALSE)
         ELSE <<s[1]>> \o RemoveLineComments(Tail(s), kind, s[1] = "\n")

\* str.splitlines()
RECURSIVE SplitLines(_)
SplitLines(s) ==
    LET brks == {i \in DOMAIN s : s[i] \in LineBreaks}
    IN  IF Len(s) = 0 THEN <<>>
        ELSE IF brks = {} THEN <<s>>
        ELSE LET k == CHOOSE i \in brks : \A j \in brks : i <= j
                 width == IF s[k] = "\r" /\ k < Len(s) /\ s[k + 1] = "\n" THEN 2 ELSE 1
             IN  <<SubSeq(s, 1, k - 1)>> \o SplitLines(SubSeq(s, k + width, Len(s)))

\* str.rstrip()
RStrip(s) ==
    LET keep == {i \in DOMAIN s : s[i] \notin Whitespace}
    IN  IF keep = {} THEN <<>>
        ELSE SubSeq(s, 1, CHOOSE i \in keep : \A j \in keep : j <= i)

\* str.strip()
Strip(s) ==
    LET keep == {i \in DOMAIN s : s[i] \notin Whitespace}
    IN  IF keep = {} THEN <<>>
        ELSE SubSeq(s, CHOOSE i \in keep : \A j \in keep : i <= j,
                       CHOOSE i \in keep : \A j \in keep : j <= i)

\* The loop that collapses consecutive blank lines: a blank line is appended
\* only when the line before it was not blank.
RECURSIVE CollapseBlank(_, _)
CollapseBlank(lines, blank) ==
    IF Len(lines) = 0 THEN <<>>
    ELSE IF Strip(lines[1]) = <<>>
         THEN (IF blank THEN <<>> ELSE << <<>> >>) \o CollapseBlank(Tail(lines), TRUE)
         ELSE <<lines[1]>> \o CollapseBlank(Tail(lines), FALSE)

\* The comment-stripping part of clean_code, by lowercased suffix.
StripComments(ext, content) ==
    IF ext \in {<<".","j","s">>, <<".","j","s","x">>, <<".","t","s">>, <<".","t","s","x">>, <<".","c","s","s">>, <<".","s","c","s","s">>, <<".","j","s","o","n">>}
    THEN RemoveLineComments(RemoveBlockComments(content), "//", TRUE)
    ELSE IF ext \in {<<".","p","y">>, <<".","p","s","1">>, <<".","y","m","l">>, <<".","y","a","m","l">>}
    THEN RemoveLineComments(content, "#", TRUE)
    ELSE IF ext = <<".","b","a","t">>
    THEN RemoveLineComments(content, "bat", TRUE)
    ELSE content

\* clean_code(path, content)
clean_code(rel, content) ==
    LET cleaned == StripComments(Lower(PathSuffix(rel)), content)
        lines == [i \in DOMAIN SplitLines(cleaned) |-> RStrip(SplitLines(cleaned)[i])]
        collapsed == CollapseBlank(lines, FALSE)
    IN  Strip(Join(collapsed, <<"\n">>))

\* -------------------------------------------------------- Reference Resolver
\* sorted(set(...)) of distinct str: the one ascending order.
SortedSet(S) ==
    [p \in 1..Cardinality(S) |->
        CHOOSE x \in S : Cardinality({y \in S : StrLess(y, x)}) = p - 1]

\* find_table_used that joins the matches without the "None" sentinel.
find_table_used_no_sentinel(rel, names) ==
    LET rel_lower == Lower(rel)
        file_stem == Lower(PathStem(rel))
        matches == SelectSeq(names,
                       LAMBDA name : Contains(rel_lower, name) \/ Contains(file_stem, name))
    IN  Join(SortedSet(Range(matches)), <<","," ">>)

\* find_table_used(path), reading the global collection_names.
find_table_used(rel, names) ==
    LET rel_lower == Lower(rel)
        file_stem == Lower(PathStem(rel))
        matches == SelectSeq(names,
                       LAMBDA name : Contains(rel_lower, name) \/ Contains(file_stem, name))
    IN  IF Len(matches) > 0
        THEN Join(SortedSet(Range(matches)), <<","," ">>)
        ELSE <<"N","o","n","e">>

\* The two quote characters of the character class ['"].
Quotes == {"'", "\""}

\* ['"][^'"]*S['"] matched with its opening quote at index q.
QuotedEndingAt(content, q, S) ==
    /\ q >= 1
    /\ q <= Len(content)
    /\ content[q] \in Quotes
    /\ \E k \in (q + 1)..(Len(content) + 1) :
          /\ \A m \in (q + 1)..(k - 1) : content[m] \notin Quotes
          /\ MatchAt(content, k, S)
          /\ k + Len(S) <= Len(content)
          /\ content[k + Len(S)] \in Quotes

\* Index after the closing quote of the earliest such match, for the patterns
\* that go on after it; 0 when there is none.
QuotedCloseSet(content, q, S) ==
    IF q >= 1 /\ q <= Len(content) /\ content[q] \in Quotes
    THEN {k + Len(S) : k \in {k \in (q + 1)..(Len(content) + 1) :
              /\ \A m \in (q + 1)..(k - 1) : content[m] \notin Quotes
              /\ MatchAt(content, k, S)
              /\ k + Len(S) <= Len(content)
              /\ content[k + Len(S)] \in Quotes}}
    ELSE {}

\* require\(\s*['"][^'"]*S['"]\s*\) found somewhere in content
SearchRequire(content, S) ==
    \E i \in DOMAIN content :
        /\ MatchAt(content, i, <<"r","e","q","u","i","r","e","(">>)
        /\ \E e \in QuotedCloseSet(content, i + 8 + WsRun(content, i + 8), S) :
              MatchAt(content, e + 1 + WsRun(content, e + 1), <<")">>)

\* from\s+['"][^'"]*S['"] matched with its "from" at index f
FromAt(content, f, S) ==
    /\ MatchAt(content, f, <<"f","r","o","m">>)
    /\ WsRun(content, f + 4) >= 1
    /\ QuotedEndingAt(content, f + 4 + WsRun(content, f + 4), S)

\* from\s+['"][^'"]*S['"] found somewhere in content
SearchFrom(content, S) == \E f \in DOMAIN content : FromAt(content, f, S)

\* import\s+[^;]*from\s+['"][^'"]*S['"] found somewhere in content
SearchImportFrom(content, S) ==
    \E i \in DOMAIN content :
        /\ MatchAt(content, i, <<"i","m","p","o","r","t">>)
        /\ i + 6 <= Len(content)
        /\ content[i + 6] \in Whitespace
        /\ \E f \in (i + 7)..Len(content) :
              /\ \A m \in (i + 7)..(f - 1) : content[m] # ";"
              /\ FromAt(content, f, S)

\* ['"]S['"] found somewhere in content
SearchQuoted(content, S) ==
    \E i \in DOMAIN content :
        /\ content[i] \in Quotes
        /\ MatchAt(content, i + 1, S)
        /\ i + 1 + Len(S) <= Len(content)
        /\ content[i + 1 + Len(S)] \in Quotes

\* rel.rsplit(".", 1)[0]: the path up to its last dot, all of it without one.
RelNoExt(rel) ==
    LET dots == {i \in DOMAIN rel : rel[i] = "."}
    IN  IF dots = {} THEN rel
        ELSE SubSeq(rel, 1, (CHOOSE i \in dots : \A j \in dots : j <= i) - 1)

\* any(p.search(content) for p in patterns) with only the three file-name
\* patterns: the stem and relative-path patterns are left out.
references_target_name_only(content, target) ==
    \/ SearchRequire(content, PathName(target))
    \/ SearchFrom(content, PathName(target))
    \/ SearchImportFrom(content, PathName(target))

\* any(p.search(content) for p in patterns), the eight patterns of target.
references_target(content, target) ==
    \/ SearchRequire(content, PathName(target))
    \/ SearchFrom(content, PathName(target))
    \/ SearchImportFrom(content, PathName(target))
    \/ SearchRequire(content, PathStem(target))
    \/ SearchFrom(content, PathStem(target))
    \/ SearchImportFrom(content, PathStem(target))
    \/ SearchQuoted(content, target)
    \/ SearchQuoted(content, RelNoExt(target))

\* The callers loop without the "if caller == target: continue" test.
caller_names_with_self(target, corpus) ==
    {PathName(caller) : caller \in
        {c \in DOMAIN corpus : references_target(corpus[c], target)}}

\* The callers loop of find_called_by followed by set(callers): the names of
\* the other files of the corpus whose content matches a pattern.
caller_names(target, corpus) ==
    {PathName(caller) : caller \in
        {c \in DOMAIN corpus : c # target /\ references_target(corpus[c], target)}}

\* sorted(set(callers), key=str.lower): the sort is stable over the set's
\* iteration order, which str hashing leaves unspecified, so names that are
\* equal in lower case may come out in either order.
SortedCallerOrders(names) ==
    {order \in [1..Cardinality(names) -> names] :
        /\ \A i, j \in DOMAIN order : i # j => order[i] # order[j]
        /\ \A i, j \in DOMAIN order :
              i < j => ~StrLess(Lower(order[j]), Lower(order[i]))}

\* find_called_by(target): every value the call can return.
find_called_by(target, corpus) ==
    IF caller_names(target, corpus) = {}
    THEN {<<"N","o","n","e">>}
    ELSE {Join(order, <<","," ">>) : order \in SortedCallerOrders(caller_names(target, corpus))}

\* ------------------------------------------------------------------- state
VARIABLES
    \* generate_program_listing.py
    tree,             \* the files under root: relative path -> [content, readable]
    pc,               \* position in the script
    unvisited,        \* files root.rglob("*") has not yielded yet
    collection_names, \* the collection vocabulary (list of str)
    program_files,    \* list of selected paths
    file_contents,    \* dict path -> str
    li,               \* index of the preload loop over program_files
    grouped,          \* dict module label -> list of paths
    group_order,      \* sorted(grouped.keys()), the outer report loop's list
    gi,               \* index of the outer report loop
    entry_order,      \* sorted(grouped[group], ...), the inner loop's list
    ei,               \* index of the inner report loop
    lines,            \* the report being assembled
    written,          \* what output_path.write_text has written, <<>> before
    run,              \* 1 in the first run of the script, 2 in a second run
    first_written,    \* the report the first run wrote
    \* clean_code applied on its own
    cc_pc, cc_path, cc_content, cc_cleaned, cc_again,
    \* describe_program applied on its own
    dp_pc, dp_path, dp_description,
    \* tmp_replace.py
    rp_pc,            \* position in the script
    rp_disk,          \* the files under root: relative path -> [text, decodable]
    rp_original,      \* the files as they were when the script started
    rp_unvisited,     \* files root.rglob('*') has not yielded yet
    rp_rewritten,     \* the paths file_path.write_text was called on
    modified          \* the list the script prints

listingVars ==
    <<tree, pc, unvisited, collection_names, program_files, file_contents, li,
      grouped, group_order, gi, entry_order, ei, lines, written, run, first_written>>
cleanVars == <<cc_pc, cc_path, cc_content, cc_cleaned, cc_again>>
describeVars == <<dp_pc, dp_path, dp_description>>
replaceVars == <<rp_pc, rp_disk, rp_original, rp_unvisited, rp_rewritten, modified>>
vars == <<listingVars, cleanVars, describeVars, replaceVars>>

\* The sets with at most k elements of S.
RECURSIVE SubsetsUpTo(_, _)
SubsetsUpTo(S, k) ==
    IF k = 0 THEN {{}}
    ELSE LET smaller == SubsetsUpTo(S, k - 1)
         IN  smaller \cup {T \cup {x} : T \in smaller, x \in S}

\* ------------------------------------------------- the scanned tree (input)
File(path, content, readable) ==
    [path |-> path, content |-> content, readable |-> readable]

\* The files a scanned tree is drawn from.  Each exclusion rule of the
\* selector has a file it rejects; h.js refers to itself and is referred to by
\* the files below it; the backend/data files give the collection vocabulary.
\* The root is a Windows directory (line 6), so no two paths of a tree are
\* equal ignoring case.
FilePool ==
    { File(<<"n","o","d","e","_","m","o","d","u","l","e","s","/","p","k","g","/","i","n","d","e","x",".","j","s">>, <<"r","e","q","u","i","r","e","(","\"",".","/","h","\"",")">>, TRUE),
      File(<<"b","a","c","k","e","n","d","/","r","o","u","t","e","s","/","T","h","u","m","b","s",".","d","b">>, <<>>, TRUE),
      File(<<"b","a","c","k","e","n","d","/","L","o","g","o",".","P","N","G">>, <<>>, TRUE),
      File(<<"D","o","c","s","/","g","u","i","d","e",".","m","d">>, <<"s","e","e"," ","\"","b","a","c","k","e","n","d","/","u","t","i","l","s","/","h",".","j","s","\"">>, TRUE),
      File(<<"b","a","c","k","e","n","d","/","R","E","A","D","M","E",".","m","d">>, <<>>, TRUE),
      File(<<"b","a","c","k","e","n","d","/","s","e","r","v","e","r",".","L","O","G">>, <<>>, TRUE),
      File(<<"b","a","c","k","e","n","d","/","u","t","i","l","s","/","h",".","b","a","k",".","j","s">>, <<"r","e","q","u","i","r","e","(","\"",".","/","h","\"",")">>, TRUE),
      File(<<"b","a","c","k","e","n","d","/","u","t","i","l","s","/","h",".","j","s">>, <<"/","*"," ","u","t","i","l"," ","*","/","\n","m","o","d","u","l","e",".","e","x","p","o","r","t","s"," ","="," ","r","e","q","u","i","r","e","(","\"",".","/","h","\"",")","\n">>, TRUE),
      File(<<"b","a","c","k","e","n","d","/","s","c","r","i","p","t","s","/","s","e","e","d",".","p","y">>, <<" "," ","#"," ","s","e","e","d","\n"," "," ","x"," ","="," ","1","\n","\n","\n">>, TRUE),
      File(<<"b","a","c","k","e","n","d","/","r","o","u","t","e","s","/","u","s","e","r","s",".","j","s">>, <<"r","e","q","u","i","r","e","("," ","'",".",".","/","u","t","i","l","s","/","h",".","j","s","'"," ",")">>, TRUE),
      File(<<"b","a","c","k","e","n","d","/","r","o","u","t","e","s","/","l","o","g","s","_","a","p","i",".","j","s">>, <<"r","e","q","u","i","r","e","(","\"",".","/","h","\"",")">>, FALSE),
      File(<<"f","r","o","n","t","e","n","d","/","s","r","c","/","A","p","p",".","j","s">>, <<"i","m","p","o","r","t"," ","h"," ","f","r","o","m"," ","\"",".","/","h","\"","\r","\n">>, TRUE),
      File(<<"f","r","o","n","t","e","n","d","/","s","r","c","/","l","i","b","/","a","p","p",".","j","s">>, <<"x"," ","="," ","\"","b","a","c","k","e","n","d","/","u","t","i","l","s","/","h","\"">>, TRUE),
      File(<<"f","r","o","n","t","e","n","d","/","s","r","c","/","i","n","d","e","x",".","j","s">>, <<"f","r","o","m"," ","'",".","/","h","'">>, TRUE),
      File(<<"b","a","c","k","e","n","d","/","i","n","d","e","x",".","j","s">>, <<"r","e","q","u","i","r","e","(","\"","h","\"",")">>, TRUE),
      File(<<"b","a","c","k","e","n","d","/","d","a","t","a","/","u","s","e","r","s",".","j","s","o","n">>, <<"[","]">>, TRUE),
      File(<<"b","a","c","k","e","n","d","/","d","a","t","a","/","L","o","g","s",".","j","s","o","n">>, <<"{","}">>, TRUE),
      File(<<"b","a","c","k","e","n","d","/","d","a","t","a","/","u","s","e","r",".","j","s","o","n">>, <<"[","]">>, TRUE),
      File(<<"b","a","c","k","e","n","d","/","a","d","a","p","t","e","r","s","/","d","b",".","j","s","o","n">>, <<"{"," ","}">>, TRUE),
      File(<<"b","a","c","k","e","n","d","/","d","a","t","a","/","u","t","i","l","s",".","j","s","o","n","/","i","n","n","e","r",".","t","x","t">>, <<"x">>, TRUE) }

\* The trees of at most MaxFiles files: relative path -> file.
Trees ==
    {[p \in {f.path : f \in T} |-> CHOOSE f \in T : f.path = p] :
        T \in SubsetsUpTo(FilePool, MaxFiles)}

\* The orders in which the elements of S can be enumerated: rglob and glob
\* yield the entries of a directory in the operating system's order.
Orders(S) ==
    {order \in [1..Cardinality(S) -> S] :
        \A i, j \in 1..Cardinality(S) : i # j => order[i] # order[j]}

\* ------------------------------------------------ generate_program_listing
\* data_dir.glob("*.json"): the entries directly in backend/data whose name
\* ends in ".json", a directory as well as a file.  An entry is there when
\* it is a file of the tree or lies on the way to one.
DataJsonFiles(t) ==
    {Join(SubSeq(PathParts(p), 1, 3), <<"/">>) :
        p \in {p \in DOMAIN t :
                  /\ Len(PathParts(p)) >= 3
                  /\ StartsWith(p, <<"b","a","c","k","e","n","d","/","d","a","t","a","/">>)
                  /\ EndsWith(PathParts(p)[3], <<".","j","s","o","n">>)}}

\* Reading in text mode (newline=None) translates "\r\n" and "\r" to "\n".
UniversalNewlines(s) == Replace(Replace(s, <<"\r","\n">>, <<"\n">>), <<"\r">>, <<"\n">>)

\* Path.read_text(encoding="utf-8", errors="ignore"); an OSError gives "".
ReadText(f) == IF f.readable THEN UniversalNewlines(f.content) ELSE <<>>

\* Lines 20-25: collection_names gets the lowercased stem of every json file
\* of the data directory, in glob order, and is then sorted.
BuildVocabulary ==
    /\ pc = "vocab"
    /\ \E order \in Orders(DataJsonFiles(tree)) :
          LET stems == [i \in DOMAIN order |-> Lower(PathStem(order[i]))]
          IN  collection_names' = StableSortByKeys(stems, stems)
    /\ pc' = "scan"
    /\ UNCHANGED <<tree, unvisited, program_files, file_contents, li, grouped,
                   group_order, gi, entry_order, ei, lines, written, run, first_written,
                   cleanVars, describeVars, replaceVars>>

\* Lines 137-145, one iteration of the rglob loop for a file, in whatever
\* order rglob yields them (a directory is passed over without effect): the
\* file is appended to program_files unless should_skip or is_program_file
\* rejects it.
ScanStep ==
    /\ pc = "scan"
    /\ \E path \in unvisited :
          /\ unvisited' = unvisited \ {path}
          /\ program_files' =
                IF ~should_skip(path) /\ is_program_file(path)
                THEN Append(program_files, path)
                ELSE program_files
    /\ UNCHANGED <<tree, pc, collection_names, file_contents, li, grouped,
                   group_order, gi, entry_order, ei, lines, written, run, first_written,
                   cleanVars, describeVars, replaceVars>>

\* The end of the scan with the sort of line 147 left out: program_files
\* stays in the order rglob gave.
SortProgramFiles_left_out ==
    /\ pc = "scan"
    /\ unvisited = {}
    /\ program_files' = program_files
    /\ li' = 1
    /\ pc' = "load"
    /\ UNCHANGED <<tree, unvisited, collection_names, file_contents, grouped,
                   group_order, gi, entry_order, ei, lines, written, run, first_written,
                   cleanVars, describeVars, replaceVars>>

\* Line 147, after the loop: program_files.sort(key=lowercased relative path).
SortProgramFiles ==
    /\ pc = "scan"
    /\ unvisited = {}
    /\ program_files' =
          StableSortByKeys(program_files,
                           [i \in DOMAIN program_files |-> Lower(program_files[i])])
    /\ li' = 1
    /\ pc' = "load"
    /\ UNCHANGED <<tree, unvisited, collection_names, file_contents, grouped,
                   group_order, gi, entry_order, ei, lines, written, run, first_written,
                   cleanVars, describeVars, replaceVars>>

\* The preload loop has run only its first iteration.
LoadFinished_after_first == li > 1 \/ li > Len(program_files)

\* Lines 151-155: the preload loop has gone through all of program_files.
LoadFinished == li > Len(program_files)

\* Lines 151-155, one iteration: the file's text, or "" when reading fails.
LoadStep ==
    /\ pc = "load"
    /\ ~LoadFinished
    /\ file_contents' = (program_files[li] :> ReadText(tree[program_files[li]])) @@ file_contents
    /\ li' = li + 1
    /\ UNCHANGED <<tree, pc, unvisited, collection_names, program_files, grouped,
                   group_order, gi, entry_order, ei, lines, written, run, first_written,
                   cleanVars, describeVars, replaceVars>>

\* The paths of program_files with module label g, in program_files order.
GroupMembers(g) == SelectSeq(program_files, LAMBDA p : module_name(p) = g)

\* Lines 319-330: the title and timestamp lines, the grouping of
\* program_files by module label, and the sorted list of labels the report
\* loop goes through.
GroupFiles ==
    /\ pc = "load"
    /\ LoadFinished
    /\ lines' = << [kind |-> "title"] >>
    /\ grouped' = [g \in {module_name(p) : p \in Range(program_files)} |-> GroupMembers(g)]
    /\ group_order' = SortedSet({module_name(p) : p \in Range(program_files)})
    /\ gi' = 1
    /\ pc' = "section"
    /\ UNCHANGED <<tree, unvisited, collection_names, program_files, file_contents, li,
                   entry_order, ei, written, run, first_written,
                   cleanVars, describeVars, replaceVars>>

\* Lines 331-333: the heading of the next module section, and the section's
\* files sorted by lowercased file name.
EmitSection ==
    /\ pc = "section"
    /\ gi <= Len(group_order)
    /\ lines' = Append(lines, [kind |-> "section", group |-> group_order[gi]])
    /\ LET members == grouped[group_order[gi]]
       IN  entry_order' =
               StableSortByKeys(members,
                                [i \in DOMAIN members |-> Lower(PathName(members[i]))])
    /\ ei' = 1
    /\ pc' = "entry"
    /\ UNCHANGED <<tree, unvisited, collection_names, program_files, file_contents, li,
                   grouped, group_order, gi, written, run, first_written,
                   cleanVars, describeVars, replaceVars>>

\* file_contents.get(path, "")
ContentOf(path) == IF path \in DOMAIN file_contents THEN file_contents[path] ELSE <<>>

\* Lines 334-348: the heading, the metadata table and, when the cleaned code is
\* not empty, the fenced code block of one file.
Entry(path, called_by) ==
    [kind |-> "entry",
     path |-> path,
     program_name |-> PathName(path),
     description |-> describe_program(path),
     table_used |-> find_table_used(path, collection_names),
     called_by |-> called_by,
     cleaned_code |-> clean_code(path, ContentOf(path)),
     language |-> code_fence_language(path)]

\* Lines 333-348, one iteration of the inner loop; after the section's last
\* file the outer loop moves on.
EmitEntry ==
    /\ pc = "entry"
    /\ ei <= Len(entry_order)
    /\ \E called_by \in find_called_by(entry_order[ei], file_contents) :
          lines' = Append(lines, Entry(entry_order[ei], called_by))
    /\ ei' = ei + 1
    /\ IF ei = Len(entry_order)
       THEN pc' = "section" /\ gi' = gi + 1
       ELSE pc' = "entry" /\ gi' = gi
    /\ UNCHANGED <<tree, unvisited, collection_names, program_files, file_contents, li,
                   grouped, group_order, entry_order, written, run, first_written,
                   cleanVars, describeVars, replaceVars>>

\* Line 350: output_path.write_text.
WriteReport ==
    /\ pc = "section"
    /\ gi > Len(group_order)
    /\ written' = lines
    /\ pc' = "done"
    /\ UNCHANGED <<tree, unvisited, collection_names, program_files, file_contents, li,
                   grouped, group_order, gi, entry_order, ei, lines, run, first_written,
                   cleanVars, describeVars, replaceVars>>

\* The script is started again on the same tree (the report of the first run
\* lies under docs/, which the selector excludes).
RunAgain ==
    /\ pc = "done"
    /\ run = 1
    /\ run' = 2
    /\ first_written' = written
    /\ pc' = "vocab"
    /\ unvisited' = DOMAIN tree
    /\ collection_names' = <<>>
    /\ program_files' = <<>>
    /\ file_contents' = <<>>
    /\ li' = 1
    /\ grouped' = <<>>
    /\ group_order' = <<>>
    /\ gi' = 1
    /\ entry_order' = <<>>
    /\ ei' = 1
    /\ lines' = <<>>
    /\ written' = <<>>
    /\ UNCHANGED <<tree, cleanVars, describeVars, replaceVars>>

ListingIdle ==
    /\ pc = "off"
    /\ tree = <<>>
    /\ unvisited = {}
    /\ collection_names = <<>>
    /\ program_files = <<>>
    /\ file_contents = <<>>
    /\ li = 1
    /\ grouped = <<>>
    /\ group_order = <<>>
    /\ gi = 1
    /\ entry_order = <<>>
    /\ ei = 1
    /\ lines = <<>>
    /\ written = <<>>
    /\ run = 1
    /\ first_written = <<>>

ListingInit ==
    /\ tree \in Trees
    /\ pc = "vocab"
    /\ unvisited = DOMAIN tree
    /\ collection_names = <<>>
    /\ program_files = <<>>
    /\ file_contents = <<>>
    /\ li = 1
    /\ grouped = <<>>
    /\ group_order = <<>>
    /\ gi = 1
    /\ entry_order = <<>>
    /\ ei = 1
    /\ lines = <<>>
    /\ written = <<>>
    /\ run = 1
    /\ first_written = <<>>

ListingNext ==
    \/ BuildVocabulary
    \/ ScanStep
    \/ SortProgramFiles
    \/ LoadStep
    \/ GroupFiles
    \/ EmitSection
    \/ EmitEntry
    \/ WriteReport

\* ------------------------------------------------- clean_code on its own
\* The sequences over alphabet of length at most n.
SeqsUpTo(alphabet, n) == UNION {[1..k -> alphabet] : k \in 0..n}

\* The texts clean_code is given: every short text over an alphabet with the
\* comment markers, blanks and line breaks, and every text over {/, *}.
CleanTexts ==
    SeqsUpTo({"a", " ", "\n", "/", "*", "#", ":"}, MaxTextLen)
        \cup SeqsUpTo({"/", "*"}, MaxSlashStarLen)

\* One path per family of suffixes clean_code tells apart.
CleanPaths == {<<"a",".","j","s">>, <<"a",".","t","x","t">>, <<"a",".","p","y">>, <<"a",".","b","a","t">>, <<"A",".","J","S","O","N">>, <<"M","a","k","e","f","i","l","e">>}

CleanIdle ==
    /\ cc_pc = "off"
    /\ cc_path = <<>>
    /\ cc_content = <<>>
    /\ cc_cleaned = <<>>
    /\ cc_again = <<>>

CleanInit ==
    /\ cc_pc = "start"
    /\ cc_path \in CleanPaths
    /\ cc_content \in CleanTexts
    /\ cc_cleaned = <<>>
    /\ cc_again = <<>>

\* cleaned_code = clean_code(path, content)
ApplyClean ==
    /\ cc_pc = "start"
    /\ cc_cleaned' = clean_code(cc_path, cc_content)
    /\ cc_pc' = "cleaned"
    /\ UNCHANGED <<cc_path, cc_content, cc_again, listingVars, describeVars, replaceVars>>

\* clean_code applied to its own result
ApplyCleanAgain ==
    /\ cc_pc = "cleaned"
    /\ cc_again' = clean_code(cc_path, cc_cleaned)
    /\ cc_pc' = "recleaned"
    /\ UNCHANGED <<cc_path, cc_content, cc_cleaned, listingVars, describeVars, replaceVars>>

CleanNext ==
    \/ ApplyClean
    \/ ApplyCleanAgain

\* --------------------------------------------- describe_program on its own
DescribeDirs ==
    {<<>>, <<"b","a","c","k","e","n","d","/">>, <<"b","a","c","k","e","n","d","/","r","o","u","t","e","s","/">>, <<"B","a","c","k","e","n","d","/","R","o","u","t","e","s","/">>, <<"b","a","c","k","e","n","d","/","m","i","d","d","l","e","w","a","r","e","/">>,
     <<"b","a","c","k","e","n","d","/","u","t","i","l","s","/">>, <<"b","a","c","k","e","n","d","/","a","d","a","p","t","e","r","s","/">>, <<"b","a","c","k","e","n","d","/","A","D","A","P","T","E","R","S","/">>, <<"b","a","c","k","e","n","d","/","s","c","r","i","p","t","s","/">>,
     <<"b","a","c","k","e","n","d","/","t","e","s","t","/">>, <<"b","a","c","k","e","n","d","/","d","a","t","a","/">>, <<"f","r","o","n","t","e","n","d","/">>, <<"f","r","o","n","t","e","n","d","/","s","r","c","/">>,
     <<"f","r","o","n","t","e","n","d","/","s","r","c","/","p","a","g","e","s","/">>, <<"f","r","o","n","t","e","n","d","/","s","r","c","/","c","o","m","p","o","n","e","n","t","s","/">>, <<"f","r","o","n","t","e","n","d","/","s","r","c","/","c","o","n","t","e","x","t","s","/">>,
     <<"f","r","o","n","t","e","n","d","/","s","r","c","/","u","t","i","l","s","/">>, <<"f","r","o","n","t","e","n","d","/","s","r","c","/","t","h","e","m","e","/">>, <<"f","r","o","n","t","e","n","d","/","s","r","c","/","d","a","t","a","/">>,
     <<"f","r","o","n","t","e","n","d","/","p","u","b","l","i","c","/">>, <<"f","r","o","n","t","e","n","d","/","b","u","i","l","d","/">>, <<"l","i","b","/","a","d","a","p","t","e","r","s","/">>, <<"t","o","o","l","s","/">>}

DescribeNames ==
    {<<"a","p","p",".","j","s">>, <<"A","p","p",".","j","s">>, <<"s","e","r","v","e","r",".","j","s">>, <<"i","n","d","e","x",".","j","s">>, <<"u","s","e","r","_","b","o","o","k","s",".","j","s">>, <<"n","o","t","e","s",".","m","d">>,
     <<"d","b",".","j","s","o","n">>, <<"c","i",".","y","m","l">>, <<"c","i",".","y","a","m","l">>, <<"r","u","n",".","b","a","t">>, <<"r","u","n",".","p","s","1">>, <<"x",".","M","D">>, <<"M","a","k","e","f","i","l","e">>}

DescribePaths == {d \o n : d \in DescribeDirs, n \in DescribeNames}

DescribeIdle ==
    /\ dp_pc = "off"
    /\ dp_path = <<>>
    /\ dp_description = <<>>

DescribeInit ==
    /\ dp_pc = "start"
    /\ dp_path \in DescribePaths
    /\ dp_description = <<>>

\* description = describe_program(path)
Describe ==
    /\ dp_pc = "start"
    /\ dp_description' = describe_program(dp_path)
    /\ dp_pc' = "described"
    /\ UNCHANGED <<dp_path, listingVars, cleanVars, replaceVars>>

DescribeNext == Describe

\* ------------------------------------------------------------ tmp_replace
extensions ==
    {<<".","j","s">>, <<".","j","s","x">>, <<".","t","s">>, <<".","t","s","x">>, <<".","j","s","o","n">>, <<".","m","d">>, <<".","p","s","1">>, <<".","y","m","l">>, <<".","y","a","m","l">>,
     <<".","t","x","t">>, <<".","h","t","m","l">>, <<".","c","s","s">>}

skip_prefixes ==
    <<<<"f","r","o","n","t","e","n","d","/","b","u","i","l","d">>, <<"f","r","o","n","t","e","n","d","/","n","o","d","e","_","m","o","d","u","l","e","s">>, <<"n","o","d","e","_","m","o","d","u","l","e","s">>, <<".","g","i","t">>, <<"b","a","c","k","e","n","d","/","u","p","l","o","a","d","s">>>>

allowed_prefixes ==
    <<<<"f","r","o","n","t","e","n","d","/","s","r","c">>, <<"f","r","o","n","t","e","n","d","/","p","u","b","l","i","c">>, <<"b","a","c","k","e","n","d","/","r","o","u","t","e","s">>, <<"b","a","c","k","e","n","d","/","t","e","s","t">>>>

replacements ==
    << <<<<"C","o","p","y"," ","I","D","s">>, <<"R","e","f","e","r","e","n","c","e"," ","I","D","s">>>>,
       <<<<"c","o","p","y"," ","I","D","s">>, <<"R","e","f","e","r","e","n","c","e"," ","I","D","s">>>>,
       <<<<"c","o","p","y"," ","i","d","s">>, <<"R","e","f","e","r","e","n","c","e"," ","I","D","s">>>>,
       <<<<"C","o","p","y"," ","I","d","s">>, <<"R","e","f","e","r","e","n","c","e"," ","I","D","s">>>>,
       <<<<"c","o","p","y"," ","I","d","s">>, <<"R","e","f","e","r","e","n","c","e"," ","I","D","s">>>>,
       <<<<"C","o","p","y"," ","I","D">>, <<"R","e","f","e","r","e","n","c","e"," ","I","D">>>>,
       <<<<"c","o","p","y"," ","I","D">>, <<"R","e","f","e","r","e","n","c","e"," ","I","D">>>>,
       <<<<"C","o","p","y"," ","i","d">>, <<"R","e","f","e","r","e","n","c","e"," ","I","D">>>>,
       <<<<"c","o","p","y"," ","i","d">>, <<"R","e","f","e","r","e","n","c","e"," ","I","D">>>> >>

\* rel.relative_to(prefix) does not raise: the components of prefix are the
\* first components of rel.
IsRelativeTo(rel, prefix) ==
    LET rp == PathParts(rel)
        pp == PathParts(prefix)
    IN  Len(pp) <= Len(rp) /\ SubSeq(rp, 1, Len(pp)) = pp

\* The skip_prefixes loop (lines 36-45)
UnderSkipPrefix(rel) == \E i \in DOMAIN skip_prefixes : IsRelativeTo(rel, skip_prefixes[i])

\* The allowed_prefixes loop (lines 47-57); an empty list permits every path.
Permitted(rel) ==
    \/ Len(allowed_prefixes) = 0
    \/ \E i \in DOMAIN allowed_prefixes : IsRelativeTo(rel, allowed_prefixes[i])

\* The replacements loop (lines 64-66): each pair applied in turn to the
\* result of the one before.
RECURSIVE ApplyReplacements(_, _)
ApplyReplacements(text, pairs) ==
    IF Len(pairs) = 0 THEN text
    ELSE ApplyReplacements(Replace(text, pairs[1][1], pairs[1][2]), Tail(pairs))

\* The tests of lines 36-59 with the allowed_prefixes test left out.
Selected_without_allow_list(rel) ==
    /\ ~UnderSkipPrefix(rel)
    /\ Lower(PathSuffix(rel)) \in extensions

\* The tests of lines 36-59 on the path of a file: under no skip prefix,
\* under an allowed prefix, suffix in extensions.
Selected(rel) ==
    /\ ~UnderSkipPrefix(rel)
    /\ Permitted(rel)
    /\ Lower(PathSuffix(rel)) \in extensions

\* Lines 60-63: the file is read when it can be opened and its bytes are
\* UTF-8 (a UnicodeDecodeError passes the file over).
Eligible(disk, rel) ==
    /\ Selected(rel)
    /\ disk[rel].readable
    /\ disk[rel].decodable

\* str(rel).replace('\\', '/')
ReportedPath(rel) == Replace(rel, <<"\\">>, <<"/">>)

\* A file under the root: its text, whether its bytes are UTF-8, whether it
\* can be opened for reading and whether it can be opened for writing.
ReplaceFile(path, text, decodable, readable, writable) ==
    [path |-> path, text |-> text, decodable |-> decodable, readable |-> readable,
     writable |-> writable]

ReplacePaths ==
    {<<"f","r","o","n","t","e","n","d","/","s","r","c","/","a",".","j","s">>, <<"f","r","o","n","t","e","n","d","/","s","r","c","/","u","i","/","B",".","J","S","X">>, <<"f","r","o","n","t","e","n","d","/","p","u","b","l","i","c","/","i","n","d","e","x",".","h","t","m","l">>,
     <<"b","a","c","k","e","n","d","/","r","o","u","t","e","s","/","r",".","m","d">>, <<"b","a","c","k","e","n","d","/","r","o","u","t","e","s","/","t","o","o","l",".","p","y">>, <<"f","r","o","n","t","e","n","d","/","b","u","i","l","d","/","a",".","j","s">>,
     <<"n","o","d","e","_","m","o","d","u","l","e","s","/","f","r","o","n","t","e","n","d","/","s","r","c","/","a",".","j","s">>, <<"b","a","c","k","e","n","d","/","a","p","p",".","j","s">>}

ReplaceTexts ==
    {<<"C","o","p","y"," ","I","D","s"," ","c","o","p","y">>, <<"t","h","e"," ","c","o","p","y"," ","i","d"," ","o","f"," ","C","o","p","y"," ","I","d","s">>, <<"C","o","p","y"," ","I","D","\r","\n","x","\r","y">>, <<"x","\r","\n","y">>}

\* The files a tree is drawn from: every path with every text; files whose
\* bytes are not UTF-8; files that cannot be opened for reading, one that
\* passes the tests of lines 36-59 and two that do not; read-only files whose
\* text the replacements change, two that pass the tests and one that does
\* not; and a read-only file whose text they leave alone.
ReplacePool ==
    {ReplaceFile(p, t, TRUE, TRUE, TRUE) : p \in ReplacePaths, t \in ReplaceTexts}
        \cup {ReplaceFile(p, <<"C","o","p","y"," ","I","D">>, FALSE, TRUE, TRUE) :
                  p \in {<<"f","r","o","n","t","e","n","d","/","s","r","c","/","a",".","j","s">>, <<"b","a","c","k","e","n","d","/","a","p","p",".","j","s">>}}
        \cup {ReplaceFile(p, <<"C","o","p","y"," ","I","D">>, TRUE, FALSE, TRUE) :
                  p \in {<<"f","r","o","n","t","e","n","d","/","s","r","c","/","a",".","j","s">>, <<"b","a","c","k","e","n","d","/","r","o","u","t","e","s","/","t","o","o","l",".","p","y">>, <<"f","r","o","n","t","e","n","d","/","b","u","i","l","d","/","a",".","j","s">>}}
        \cup {ReplaceFile(p, <<"C","o","p","y"," ","I","D","s"," ","c","o","p","y">>, TRUE, TRUE, FALSE) :
                  p \in {<<"f","r","o","n","t","e","n","d","/","s","r","c","/","a",".","j","s">>, <<"f","r","o","n","t","e","n","d","/","p","u","b","l","i","c","/","i","n","d","e","x",".","h","t","m","l">>, <<"b","a","c","k","e","n","d","/","a","p","p",".","j","s">>}}
        \cup {ReplaceFile(<<"f","r","o","n","t","e","n","d","/","s","r","c","/","a",".","j","s">>, <<"R","e","f","e","r","e","n","c","e"," ","I","D"," ","o","n","l","y">>, TRUE, TRUE, FALSE)}

ReplaceTrees ==
    {[p \in {f.path : f \in T} |-> CHOOSE f \in T : f.path = p] :
        T \in {T \in SubsetsUpTo(ReplacePool, MaxReplaceFiles) :
                  \A f, g \in T : f.path = g.path => f = g}}

ReplaceIdle ==
    /\ rp_pc = "off"
    /\ rp_disk = <<>>
    /\ rp_original = <<>>
    /\ rp_unvisited = {}
    /\ rp_rewritten = {}
    /\ modified = <<>>

ReplaceInit ==
    /\ rp_pc = "walk"
    /\ rp_disk \in ReplaceTrees
    /\ rp_original = rp_disk
    /\ rp_unvisited = DOMAIN rp_disk
    /\ rp_rewritten = {}
    /\ modified = <<>>

\* Lines 64-67: the text read_text gives, line ends translated, is not the
\* text the replacements make of it, so the file is to be written.
ToBeWritten(disk, rel) ==
    /\ Eligible(disk, rel)
    /\ ApplyReplacements(UniversalNewlines(disk[rel].text), replacements)
          # UniversalNewlines(disk[rel].text)

\* Lines 32-69, one iteration of the rglob loop for a file: text is what
\* read_text gives, line ends translated; a file that passes the tests and
\* whose text the replacements change is written back as new_text (with
\* "\n" line ends, os.linesep of the platform the script runs on being "\n")
\* and reported.
ReplaceStep ==
    /\ rp_pc = "walk"
    /\ \E rel \in rp_unvisited :
          LET text == UniversalNewlines(rp_disk[rel].text)
              new_text == ApplyReplacements(text, replacements)
          IN  /\ ~(Selected(rel) /\ ~rp_disk[rel].readable)
              /\ ~(ToBeWritten(rp_disk, rel) /\ ~rp_disk[rel].writable)
              /\ rp_unvisited' = rp_unvisited \ {rel}
              /\ IF ToBeWritten(rp_disk, rel)
                 THEN /\ rp_disk' = [rp_disk EXCEPT ![rel].text = new_text]
                      /\ rp_rewritten' = rp_rewritten \cup {rel}
                      /\ modified' = Append(modified, ReportedPath(rel))
                 ELSE UNCHANGED <<rp_disk, rp_rewritten, modified>>
    /\ UNCHANGED <<rp_pc, rp_original, listingVars, cleanVars, describeVars>>

\* Lines 60-63: read_text raises an OSError for a file that passed the tests
\* of lines 36-59 and cannot be opened; only UnicodeDecodeError is caught, so
\* the script ends there, the files rewritten so far staying rewritten and
\* nothing being printed.
ReplaceFails ==
    /\ rp_pc = "walk"
    /\ \E rel \in rp_unvisited : Selected(rel) /\ ~rp_disk[rel].readable
    /\ rp_pc' = "failed"
    /\ UNCHANGED <<rp_disk, rp_original, rp_unvisited, rp_rewritten, modified,
                   listingVars, cleanVars, describeVars>>

\* Lines 67-68: write_text raises an OSError for a file that is to be
\* written and cannot be opened for writing; the script ends there with the
\* file as it was and its path not appended to modified.
WriteFails ==
    /\ rp_pc = "walk"
    /\ \E rel \in rp_unvisited : ToBeWritten(rp_disk, rel) /\ ~rp_disk[rel].writable
    /\ rp_pc' = "failed"
    /\ UNCHANGED <<rp_disk, rp_original, rp_unvisited, rp_rewritten, modified,
                   listingVars, cleanVars, describeVars>>

\* Lines 71-74: the list and the count are printed.
PrintModified ==
    /\ rp_pc = "walk"
    /\ rp_unvisited = {}
    /\ rp_pc' = "done"
    /\ UNCHANGED <<rp_disk, rp_original, rp_unvisited, rp_rewritten, modified,
                   listingVars, cleanVars, describeVars>>

ReplaceNext ==
    \/ ReplaceStep
    \/ ReplaceFails
    \/ WriteFails
    \/ PrintModified

\* ------------------------------------------------------------ specifications
Init == ListingInit /\ CleanIdle /\ DescribeIdle /\ ReplaceIdle
Next == ListingNext
\* One run of generate_program_listing.py over a tree.
Spec == Init /\ [][Next]_vars

NextTwoRuns ==
    \/ ListingNext
    \/ RunAgain
\* Two runs of generate_program_listing.py over the same tree.
SpecTwoRuns == Init /\ [][NextTwoRuns]_vars

InitClean == ListingIdle /\ CleanInit /\ DescribeIdle /\ ReplaceIdle
\* clean_code applied to a text, and again to its result.
SpecClean == InitClean /\ [][CleanNext]_vars

InitDescribe == ListingIdle /\ CleanIdle /\ DescribeInit /\ ReplaceIdle
\* describe_program applied to a path.
SpecDescribe == InitDescribe /\ [][DescribeNext]_vars

InitReplace == ListingIdle /\ CleanIdle /\ DescribeIdle /\ ReplaceInit
\* One run of tmp_replace.py over a tree.
SpecReplace == InitReplace /\ [][ReplaceNext]_vars

\* ------------------------------------------------------------------ claims
\* A comma-joined field of the metadata table read back as a list: the
\* sentinel stands for the empty list.
RECURSIVE SplitBy(_, _)
SplitBy(s, sep) ==
    LET hits == {i \in DOMAIN s : MatchAt(s, i, sep)}
    IN  IF hits = {} THEN <<s>>
        ELSE LET i == CHOOSE k \in hits : \A j \in hits : k <= j
             IN  <<SubSeq(s, 1, i - 1)>> \o SplitBy(SubSeq(s, i + Len(sep), Len(s)), sep)

FieldList(field) == IF field = <<"N","o","n","e">> THEN <<>> ELSE SplitBy(field, <<","," ">>)

\* ---- C1
\* The exclusion rules as the claim lists them.
ExcludedByRule(rel) ==
    LET parts == PathParts(rel)
        name == PathName(rel)
        lowerName == Lower(name)
        suffix == Lower(PathSuffix(rel))
        lowerRel == Lower(rel)
    IN  \/ \E i \in DOMAIN parts : parts[i] \in skip_dirs
        \/ name \in skip_files
        \/ lowerName \in exclude_names
        \/ suffix \in binary_exts
        \/ suffix \in {<<".","l","o","g">>, <<".","b","a","k">>}
        \/ Contains(lowerName, <<".","b","a","k",".">>)
        \/ \E prefix \in exclude_prefixes : StartsWith(lowerRel, prefix)

\* C1: a file of the tree that an exclusion rule matches (ignored directory
\* component, skipped or excluded name, binary, log or backup extension,
\* ".bak." infix, excluded path prefix) is never in program_files, and never
\* has an entry in the report, whatever its place in the tree.
C1_ExcludedNeverSelected ==
    \A rel \in DOMAIN tree :
        (\/ rel \in Range(program_files)
         \/ \E i \in DOMAIN lines : lines[i].kind = "entry" /\ lines[i].path = rel)
            => ~ExcludedByRule(rel)

\* A finished run over a tree with a backup copy in a directory whose other
\* file was selected.
C1_Witness ==
    /\ pc = "done"
    /\ <<"b","a","c","k","e","n","d","/","u","t","i","l","s","/","h",".","b","a","k",".","j","s">> \in DOMAIN tree
    /\ ExcludedByRule(<<"b","a","c","k","e","n","d","/","u","t","i","l","s","/","h",".","b","a","k",".","j","s">>)
    /\ <<"b","a","c","k","e","n","d","/","u","t","i","l","s","/","h",".","j","s">> \in Range(program_files)

\* ---- C2
\* C2: clean_code applied to its own result gives that result again, for
\* every suffix and every text.
C2_CleanIdempotent == cc_pc = "recleaned" => cc_again = cc_cleaned

\* ---- C3
\* The normalisation the claim describes, for a text without comment
\* stripping: every line (as str.splitlines cuts them) loses its trailing
\* whitespace, a run of blank lines becomes one blank line, blank lines at
\* the start and the end go, and nothing else changes.  This is the claim's
\* wording, not line 197: there the closing strip() takes the leading
\* whitespace of the first line that is left as well.
RECURSIVE DropLeadingBlank(_)
DropLeadingBlank(ls) ==
    IF Len(ls) > 0 /\ ls[1] = <<>> THEN DropLeadingBlank(Tail(ls)) ELSE ls

RECURSIVE DropTrailingBlank(_)
DropTrailingBlank(ls) ==
    IF Len(ls) > 0 /\ ls[Len(ls)] = <<>>
    THEN DropTrailingBlank(SubSeq(ls, 1, Len(ls) - 1))
    ELSE ls

RECURSIVE SqueezeBlank(_)
SqueezeBlank(ls) ==
    IF Len(ls) <= 1 THEN ls
    ELSE IF ls[1] = <<>> /\ ls[2] = <<>> THEN SqueezeBlank(Tail(ls))
    ELSE <<ls[1]>> \o SqueezeBlank(Tail(ls))

WhitespaceNormalForm(text) ==
    LET ls == SplitLines(text)
        trimmed == [i \in DOMAIN ls |-> RStrip(ls[i])]
    IN  Join(DropTrailingBlank(DropLeadingBlank(SqueezeBlank(trimmed))), <<"\n">>)

\* The suffixes clean_code strips comments for.
CommentSuffixes ==
    {<<".","j","s">>, <<".","j","s","x">>, <<".","t","s">>, <<".","t","s","x">>, <<".","c","s","s">>, <<".","s","c","s","s">>, <<".","p","y">>, <<".","p","s","1">>, <<".","y","m","l">>, <<".","y","a","m","l">>,
     <<".","b","a","t">>, <<".","j","s","o","n">>}

\* C3: for a suffix clean_code does not know, the result is the text with
\* trailing whitespace removed from every line, runs of blank lines made one
\* blank line, and leading and trailing blank lines removed; every other
\* line is kept as it was, leading whitespace included.
C3_UnknownSuffixOnlyWhitespace ==
    (cc_pc \in {"cleaned", "recleaned"} /\ Lower(PathSuffix(cc_path)) \notin CommentSuffixes)
        => cc_cleaned = WhitespaceNormalForm(cc_content)

\* ---- C4
\* No file of the corpus other than target matches a pattern of target.
NoOtherFileRefers(target) ==
    \A other \in DOMAIN file_contents :
        other # target => ~references_target(file_contents[other], target)

\* C4: the caller list of an entry does not depend on the target's own
\* content (it is a list the resolver gives with that content emptied), and
\* it is the sentinel when no other file of the corpus matches.
C4_TargetNeverItsOwnCaller ==
    \A i \in DOMAIN lines :
        lines[i].kind = "entry" =>
            /\ lines[i].called_by \in
                  find_called_by(lines[i].path,
                                 [file_contents EXCEPT ![lines[i].path] = <<>>])
            /\ NoOtherFileRefers(lines[i].path) => lines[i].called_by = <<"N","o","n","e">>

\* A finished run whose report has an entry for a file that requires its own
\* name and has no other caller.
C4_Witness ==
    /\ pc = "done"
    /\ \E i \in DOMAIN lines :
          /\ lines[i].kind = "entry"
          /\ lines[i].path = <<"b","a","c","k","e","n","d","/","u","t","i","l","s","/","h",".","j","s">>
          /\ references_target(file_contents[lines[i].path], lines[i].path)
          /\ Cardinality(DOMAIN file_contents) >= 2
          /\ lines[i].called_by = <<"N","o","n","e">>

\* ---- C5
\* The references the claim names, written out.  content[i..j] is a quoted
\* path that ends in s: a quote character at either end (either of the two,
\* not necessarily the same), no quote character before s in between.
QuotedPathAt(content, i, j, s) ==
    /\ i < j - Len(s)
    /\ content[i] \in Quotes
    /\ content[j] \in Quotes
    /\ SubSeq(content, j - Len(s), j - 1) = s
    /\ \A m \in (i + 1)..(j - Len(s) - 1) : content[m] \notin Quotes

\* Only whitespace at the indices from..to of content.
BlankBetween(content, from, to) == \A m \in from..to : content[m] \in Whitespace

\* content holds require(q), whitespace allowed inside the parentheses, or
\* from q with whitespace between, q a quoted path that ends in s.  (The
\* import ... from pattern is a case of the from pattern.)
RequiresOrImports(content, s) ==
    \E i, j \in DOMAIN content :
        /\ QuotedPathAt(content, i, j, s)
        /\ \/ /\ \E k \in 1..(i - 1) :
                     /\ MatchAt(content, k, <<"r","e","q","u","i","r","e","(">>)
                     /\ k + 8 <= i
                     /\ BlankBetween(content, k + 8, i - 1)
                /\ \E c \in (j + 1)..Len(content) :
                     /\ content[c] = ")"
                     /\ BlankBetween(content, j + 1, c - 1)
           \/ \E k \in 1..(i - 1) :
                  /\ MatchAt(content, k, <<"f","r","o","m">>)
                  /\ k + 4 < i
                  /\ BlankBetween(content, k + 4, i - 1)

\* content holds s between two quote characters.
IsQuotedIn(content, s) ==
    \E open, close \in Quotes : Contains(content, <<open>> \o s \o <<close>>)

\* The relative path cut at its last dot (line 275), whole when it has none.
WithoutSuffix(rel) ==
    IF \E i \in DOMAIN rel : rel[i] = "."
    THEN SubSeq(rel, 1, (CHOOSE i \in DOMAIN rel :
                            rel[i] = "." /\ \A j \in (i + 1)..Len(rel) : rel[j] # ".") - 1)
    ELSE rel

RefersTo(content, target) ==
    \/ RequiresOrImports(content, PathName(target))
    \/ RequiresOrImports(content, PathStem(target))
    \/ IsQuotedIn(content, target)
    \/ IsQuotedIn(content, WithoutSuffix(target))

\* C5: in the entry of a file A, the caller list holds the name of every
\* other program file whose content requires or imports a quoted path ending
\* in A's name or stem, or quotes A's relative path with or without suffix;
\* the list has no name twice and is sorted ignoring case.
C5_CallersListed ==
    \A i \in DOMAIN lines :
        lines[i].kind = "entry" =>
            LET callers == FieldList(lines[i].called_by)
            IN  /\ \A other \in DOMAIN file_contents :
                      (other # lines[i].path /\ RefersTo(file_contents[other], lines[i].path))
                          => PathName(other) \in Range(callers)
                /\ \A j, k \in DOMAIN callers : j # k => callers[j] # callers[k]
                /\ \A j, k \in DOMAIN callers :
                      j < k => ~StrLess(Lower(callers[k]), Lower(callers[j]))

\* A finished run in which h.js has two callers, one that requires its stem
\* and one that imports it, listed in order.
C5_Witness ==
    /\ pc = "done"
    /\ \E i \in DOMAIN lines :
          /\ lines[i].kind = "entry"
          /\ lines[i].path = <<"b","a","c","k","e","n","d","/","u","t","i","l","s","/","h",".","j","s">>
          /\ <<"b","a","c","k","e","n","d","/","i","n","d","e","x",".","j","s">> \in DOMAIN file_contents
          /\ RefersTo(file_contents[<<"b","a","c","k","e","n","d","/","i","n","d","e","x",".","j","s">>], lines[i].path)
          /\ lines[i].called_by = <<"A","p","p",".","j","s",","," ","i","n","d","e","x",".","j","s">>

\* ---- C6
\* C6: the table-used field of an entry lists exactly the vocabulary entries
\* that occur in the file's lowercased relative path or stem, each once, in
\* ascending order, joined by ", "; it is "None", and never empty, when there
\* is none.  With the vocabulary {logs, users}, backend/routes/users.js gets
\* "users".
C6_TableUsed ==
    \A i \in DOMAIN lines :
        lines[i].kind = "entry" =>
            LET used == FieldList(lines[i].table_used)
                matching == {name \in Range(collection_names) :
                                \/ Contains(Lower(lines[i].path), name)
                                \/ Contains(Lower(PathStem(lines[i].path)), name)}
            IN  /\ Range(used) = matching
                /\ \A j, k \in DOMAIN used : j < k => StrLess(used[j], used[k])
                /\ lines[i].table_used # <<>>
                /\ matching = {} => lines[i].table_used = <<"N","o","n","e">>
                /\ (lines[i].path = <<"b","a","c","k","e","n","d","/","r","o","u","t","e","s","/","u","s","e","r","s",".","j","s">>
                        /\ collection_names = <<<<"l","o","g","s">>, <<"u","s","e","r","s">>>>)
                      => lines[i].table_used = <<"u","s","e","r","s">>

\* A finished run with the vocabulary {logs, users} and an entry for
\* backend/routes/users.js.
C6_Witness ==
    /\ pc = "done"
    /\ collection_names = <<<<"l","o","g","s">>, <<"u","s","e","r","s">>>>
    /\ \E i \in DOMAIN lines :
          /\ lines[i].kind = "entry"
          /\ lines[i].path = <<"b","a","c","k","e","n","d","/","r","o","u","t","e","s","/","u","s","e","r","s",".","j","s">>
          /\ lines[i].table_used = <<"u","s","e","r","s">>

\* ---- C7
\* The section headings of a report are in ascending order of label.
SectionsInOrder(report) ==
    LET labels == SelectSeq(report, LAMBDA line : line.kind = "section")
    IN  \A j, k \in DOMAIN labels : j < k => StrLess(labels[j].group, labels[k].group)

\* Between two headings, the entries are in ascending order of lowercased
\* file name.
EntriesInOrder(report) ==
    \A j \in DOMAIN report :
        (j > 1 /\ report[j].kind = "entry" /\ report[j - 1].kind = "entry")
            => ~StrLess(Lower(report[j].program_name), Lower(report[j - 1].program_name))

\* The sequence of sections and entries of a report: which section or which
\* file each line is, whatever the entry says about the file.
SequenceOf(report) ==
    [j \in DOMAIN report |->
        IF report[j].kind = "section" THEN <<"section", report[j].group>>
        ELSE IF report[j].kind = "entry" THEN <<"entry", report[j].path>>
        ELSE <<report[j].kind>>]

\* C7: the written report has its sections in alphabetical order of label
\* and, within a section, its entries in case-insensitive order of file
\* name, and a second run over the same tree writes the same sequence of
\* sections and entries as the first, entries whose names are equal ignoring
\* case included.
C7_SameOrderEveryRun ==
    pc = "done" =>
        /\ SectionsInOrder(written)
        /\ EntriesInOrder(written)
        /\ run = 2 => SequenceOf(written) = SequenceOf(first_written)

\* A second run has finished on a tree with two sections, one of them
\* holding two files whose names are equal ignoring case.
C7_Witness ==
    /\ pc = "done"
    /\ run = 2
    /\ \E j, k \in DOMAIN written :
          j # k /\ written[j].kind = "section" /\ written[k].kind = "section"
    /\ \E j \in DOMAIN written :
          /\ j > 1
          /\ written[j].kind = "entry"
          /\ written[j - 1].kind = "entry"
          /\ written[j].program_name # written[j - 1].program_name
          /\ Lower(written[j].program_name) = Lower(written[j - 1].program_name)

\* ---- C8
\* The rules of describe_program as a list in priority order: what the
\* lowercased path starts with or equals, or what the name ends with.
DescriptionRules ==
    << [on |-> "prefix", key |-> <<"b","a","c","k","e","n","d","/","r","o","u","t","e","s","/">>, text |-> <<>>],
       [on |-> "prefix", key |-> <<"b","a","c","k","e","n","d","/","m","i","d","d","l","e","w","a","r","e","/">>,
        text |-> <<"E","x","p","r","e","s","s"," ","m","i","d","d","l","e","w","a","r","e"," ","f","o","r"," ","r","e","q","u","e","s","t"," ","h","a","n","d","l","i","n","g"," ","a","n","d"," ","a","c","c","e","s","s"," ","c","o","n","t","r","o","l",".">>],
       [on |-> "prefix", key |-> <<"b","a","c","k","e","n","d","/","u","t","i","l","s","/">>,
        text |-> <<"B","a","c","k","e","n","d"," ","u","t","i","l","i","t","y"," ","m","o","d","u","l","e"," ","u","s","e","d"," ","a","c","r","o","s","s"," ","s","e","r","v","i","c","e","s",".">>],
       [on |-> "prefix", key |-> <<"b","a","c","k","e","n","d","/","a","d","a","p","t","e","r","s","/">>,
        text |-> <<"D","a","t","a","b","a","s","e"," ","a","d","a","p","t","e","r"," ","l","a","y","e","r"," ","f","o","r"," ","s","t","o","r","a","g","e"," ","o","p","e","r","a","t","i","o","n","s",".">>],
       [on |-> "prefix", key |-> <<"b","a","c","k","e","n","d","/","s","c","r","i","p","t","s","/">>,
        text |-> <<"B","a","c","k","e","n","d"," ","m","a","i","n","t","e","n","a","n","c","e"," ","o","r"," ","d","a","t","a"," ","m","i","g","r","a","t","i","o","n"," ","s","c","r","i","p","t",".">>],
       [on |-> "prefix", key |-> <<"b","a","c","k","e","n","d","/","t","e","s","t","/">>, text |-> <<"B","a","c","k","e","n","d"," ","a","u","t","o","m","a","t","e","d"," ","t","e","s","t"," ","c","a","s","e",".">>],
       [on |-> "prefix", key |-> <<"b","a","c","k","e","n","d","/","d","a","t","a","/">>,
        text |-> <<"S","e","e","d"," ","o","r"," ","o","f","f","l","i","n","e"," ","d","a","t","a"," ","s","t","o","r","e"," ","f","o","r"," ","t","h","e"," ","b","a","c","k","e","n","d",".">>],
       [on |-> "path", key |-> <<"b","a","c","k","e","n","d","/","a","p","p",".","j","s">>,
        text |-> <<"E","x","p","r","e","s","s"," ","a","p","p","l","i","c","a","t","i","o","n"," ","c","o","n","f","i","g","u","r","a","t","i","o","n"," ","a","n","d"," ","m","i","d","d","l","e","w","a","r","e"," ","s","e","t","u","p",".">>],
       [on |-> "path", key |-> <<"b","a","c","k","e","n","d","/","s","e","r","v","e","r",".","j","s">>,
        text |-> <<"B","a","c","k","e","n","d"," ","s","e","r","v","e","r"," ","e","n","t","r","y"," ","p","o","i","n","t"," ","a","n","d"," ","H","T","T","P"," ","l","i","s","t","e","n","e","r",".">>],
       [on |-> "prefix", key |-> <<"f","r","o","n","t","e","n","d","/","s","r","c","/","p","a","g","e","s","/">>,
        text |-> <<"F","r","o","n","t","e","n","d"," ","p","a","g","e"," ","v","i","e","w"," ","f","o","r"," ","r","o","u","t","i","n","g"," ","a","n","d"," ","p","a","g","e","-","l","e","v","e","l"," ","U","I",".">>],
       [on |-> "prefix", key |-> <<"f","r","o","n","t","e","n","d","/","s","r","c","/","c","o","m","p","o","n","e","n","t","s","/">>,
        text |-> <<"R","e","u","s","a","b","l","e"," ","f","r","o","n","t","e","n","d"," ","U","I"," ","c","o","m","p","o","n","e","n","t",".">>],
       [on |-> "prefix", key |-> <<"f","r","o","n","t","e","n","d","/","s","r","c","/","c","o","n","t","e","x","t","s","/">>,
        text |-> <<"R","e","a","c","t"," ","c","o","n","t","e","x","t"," ","p","r","o","v","i","d","e","r"," ","f","o","r"," ","s","h","a","r","e","d"," ","s","t","a","t","e",".">>],
       [on |-> "prefix", key |-> <<"f","r","o","n","t","e","n","d","/","s","r","c","/","u","t","i","l","s","/">>,
        text |-> <<"F","r","o","n","t","e","n","d"," ","u","t","i","l","i","t","y"," ","h","e","l","p","e","r"," ","f","o","r"," ","s","h","a","r","e","d"," ","l","o","g","i","c",".">>],
       [on |-> "prefix", key |-> <<"f","r","o","n","t","e","n","d","/","s","r","c","/","t","h","e","m","e","/">>,
        text |-> <<"F","r","o","n","t","e","n","d"," ","t","h","e","m","i","n","g"," ","a","n","d"," ","U","I"," ","c","o","n","f","i","g","u","r","a","t","i","o","n",".">>],
       [on |-> "prefix", key |-> <<"f","r","o","n","t","e","n","d","/","s","r","c","/","d","a","t","a","/">>,
        text |-> <<"F","r","o","n","t","e","n","d"," ","s","t","a","t","i","c"," ","d","a","t","a"," ","c","o","n","f","i","g","u","r","a","t","i","o","n",".">>],
       [on |-> "path", key |-> <<"f","r","o","n","t","e","n","d","/","s","r","c","/","i","n","d","e","x",".","j","s">>,
        text |-> <<"F","r","o","n","t","e","n","d"," ","a","p","p","l","i","c","a","t","i","o","n"," ","b","o","o","t","s","t","r","a","p"," ","a","n","d"," ","r","e","n","d","e","r"," ","e","n","t","r","y",".">>],
       [on |-> "path", key |-> <<"f","r","o","n","t","e","n","d","/","s","r","c","/","a","p","p",".","j","s">>,
        text |-> <<"F","r","o","n","t","e","n","d"," ","a","p","p","l","i","c","a","t","i","o","n"," ","r","o","o","t"," ","c","o","m","p","o","n","e","n","t",".">>],
       [on |-> "prefix", key |-> <<"f","r","o","n","t","e","n","d","/","p","u","b","l","i","c","/">>,
        text |-> <<"F","r","o","n","t","e","n","d"," ","p","u","b","l","i","c"," ","s","t","a","t","i","c"," ","a","s","s","e","t"," ","o","r"," ","H","T","M","L"," ","e","n","t","r","y",".">>],
       [on |-> "prefix", key |-> <<"f","r","o","n","t","e","n","d","/","b","u","i","l","d","/">>, text |-> <<"C","o","m","p","i","l","e","d"," ","f","r","o","n","t","e","n","d"," ","b","u","i","l","d"," ","a","r","t","i","f","a","c","t",".">>],
       [on |-> "suffix", key |-> <<".","m","d">>, text |-> <<"P","r","o","j","e","c","t"," ","d","o","c","u","m","e","n","t","a","t","i","o","n"," ","f","i","l","e",".">>],
       [on |-> "suffix", key |-> <<".","j","s","o","n">>, text |-> <<"P","r","o","j","e","c","t"," ","c","o","n","f","i","g","u","r","a","t","i","o","n"," ","o","r"," ","d","a","t","a"," ","f","i","l","e",".">>],
       [on |-> "suffix", key |-> <<".","y","m","l">>, text |-> <<"D","e","p","l","o","y","m","e","n","t"," ","o","r"," ","c","o","n","f","i","g","u","r","a","t","i","o","n"," ","f","i","l","e",".">>],
       [on |-> "suffix", key |-> <<".","y","a","m","l">>, text |-> <<"D","e","p","l","o","y","m","e","n","t"," ","o","r"," ","c","o","n","f","i","g","u","r","a","t","i","o","n"," ","f","i","l","e",".">>],
       [on |-> "suffix", key |-> <<".","b","a","t">>, text |-> <<"A","u","t","o","m","a","t","i","o","n"," ","o","r"," ","s","t","a","r","t","u","p"," ","s","c","r","i","p","t",".">>],
       [on |-> "suffix", key |-> <<".","p","s","1">>, text |-> <<"A","u","t","o","m","a","t","i","o","n"," ","o","r"," ","s","t","a","r","t","u","p"," ","s","c","r","i","p","t",".">>] >>

RuleMatches(rule, rel) ==
    CASE rule.on = "prefix" -> StartsWith(Lower(rel), rule.key)
      [] rule.on = "path" -> Lower(rel) = rule.key
      [] rule.on = "suffix" -> EndsWith(PathName(rel), rule.key)

\* What the first matching rule says, the generic sentence when none matches.
FirstMatchDescription(rel) ==
    LET hits == {r \in DOMAIN DescriptionRules : RuleMatches(DescriptionRules[r], rel)}
    IN  IF hits = {} THEN <<"S","o","u","r","c","e"," ","f","i","l","e"," ","l","o","c","a","t","e","d"," ","a","t"," ">> \o rel \o <<".">>
        ELSE LET first == CHOOSE r \in hits : \A q \in hits : r <= q
             IN  IF DescriptionRules[first].key = <<"b","a","c","k","e","n","d","/","r","o","u","t","e","s","/">>
                 THEN <<"A","P","I"," ","r","o","u","t","e"," ","h","a","n","d","l","e","r"," ","f","o","r"," ">>
                          \o Replace(PathStem(rel), <<"_">>, <<" ">>) \o <<" ","r","e","s","o","u","r","c","e","s",".">>
                 ELSE DescriptionRules[first].text

\* C8: the description of a path is the one of the first rule, in the fixed
\* order with every path rule before every file-name rule, that the path
\* matches (so a file under backend/adapters/ is a database adapter whatever
\* its suffix), the generic sentence naming the relative path when no rule
\* matches, and there is one for every path.
C8_FirstMatchWins ==
    dp_pc = "described" =>
        /\ dp_description = FirstMatchDescription(dp_path)
        /\ StartsWith(Lower(dp_path), <<"b","a","c","k","e","n","d","/","a","d","a","p","t","e","r","s","/">>)
              => dp_description = <<"D","a","t","a","b","a","s","e"," ","a","d","a","p","t","e","r"," ","l","a","y","e","r"," ","f","o","r"," ","s","t","o","r","a","g","e"," ","o","p","e","r","a","t","i","o","n","s",".">>
        /\ Len(dp_description) > 0

\* A json file under backend/adapters/ has been described as an adapter.
C8_Witness ==
    /\ dp_pc = "described"
    /\ dp_path = <<"b","a","c","k","e","n","d","/","a","d","a","p","t","e","r","s","/","d","b",".","j","s","o","n">>
    /\ dp_description = <<"D","a","t","a","b","a","s","e"," ","a","d","a","p","t","e","r"," ","l","a","y","e","r"," ","f","o","r"," ","s","t","o","r","a","g","e"," ","o","p","e","r","a","t","i","o","n","s",".">>

\* ---- C9
\* rel is the path prefix or lies under it.
LiesUnder(rel, prefix) == rel = prefix \/ StartsWith(rel, prefix \o <<"/">>)

\* C9: a file is rewritten only if it lies under an allowed prefix and under
\* no denied prefix, its lowercased suffix is in the fixed set and the
\* substitutions, applied in order, change its original text; every file not
\* rewritten is as it was; and the reported paths, and their number, are
\* those of the rewritten files.
C9_OnlyEligibleFilesRewritten ==
    /\ \A rel \in DOMAIN rp_disk :
          /\ rel \in rp_rewritten =>
                /\ \E i \in DOMAIN allowed_prefixes : LiesUnder(rel, allowed_prefixes[i])
                /\ \A i \in DOMAIN skip_prefixes : ~LiesUnder(rel, skip_prefixes[i])
                /\ Lower(PathSuffix(rel)) \in extensions
                /\ ApplyReplacements(rp_original[rel].text, replacements)
                      # rp_original[rel].text
          /\ rel \notin rp_rewritten => rp_disk[rel] = rp_original[rel]
    /\ Range(modified) = rp_rewritten
    /\ Len(modified) = Cardinality(rp_rewritten)

\* A finished run that rewrote a file and left alone a file outside the
\* allowed prefixes whose text the substitutions would have changed.
C9_Witness ==
    /\ rp_pc = "done"
    /\ rp_rewritten # {}
    /\ \E rel \in DOMAIN rp_disk :
          /\ rel = <<"b","a","c","k","e","n","d","/","a","p","p",".","j","s">>
          /\ rp_disk[rel].decodable
          /\ ApplyReplacements(rp_disk[rel].text, replacements) # rp_disk[rel].text

\* ---- C10
\* The report loop is running or has finished: pc is at its outer loop, at
\* its inner loop, where find_table_used and find_called_by are called, or
\* after the write.
Resolving == pc \in {"section", "entry", "done"}

\* The corpus holds every selected file, with "" for a file that could not be
\* read, and the vocabulary holds the lowercased stems of the data files.
CorpusAndVocabularyBuilt ==
    /\ DOMAIN file_contents = Range(program_files)
    /\ \A p \in DOMAIN file_contents : ~tree[p].readable => file_contents[p] = <<>>
    /\ Range(collection_names) = {Lower(PathStem(p)) : p \in DataJsonFiles(tree)}

\* C10: whenever a caller list or a table-used value is about to be or has
\* been computed, the corpus holds every selected file (empty content for a
\* failed read) and the vocabulary is built; and no step from then on, up to
\* and including the write of the report, changes either.
C10_LoadThenResolve ==
    /\ [](Resolving => CorpusAndVocabularyBuilt)
    /\ [][(pc \in {"section", "entry"})
            => (file_contents' = file_contents /\ collection_names' = collection_names)]_vars

\* A finished run over a tree with a data file and two selected files, one of
\* them unreadable, whose report names a collection.
C10_Witness ==
    /\ pc = "done"
    /\ Len(program_files) >= 2
    /\ Len(collection_names) >= 1
    /\ \E p \in DOMAIN file_contents : ~tree[p].readable /\ file_contents[p] = <<>>
    /\ \E i \in DOMAIN lines : lines[i].kind = "entry" /\ lines[i].table_used # <<"N","o","n","e">>

====
